---- MODULE Spec2Model ----
(***************************************************************************)
(* Model of the content extraction and summarization pipeline of CLImate   *)
(* (src/src/tools/webScraper/cleanHTML.ts): cleanHtml, summarizeMarkdown,   *)
(* intelligentSummarization, SummarizationService, validateSummaryQuality  *)
(* and naturalExtractiveSummary.                                           *)
(*                                                                         *)
(* Strings are abstracted to the features the code reads from them         *)
(* (lengths, word counts, per-sentence entity counts).  Times are seconds. *)
(***************************************************************************)
EXTENDS Integers, Sequences, FiniteSets, TLC

VARIABLES
    pc,             \* position of the running cleanHtml call
    rawHtml,        \* the rawHtml argument: [len, trimLen]
    contentRegions, \* ContentAnalyzer.analyzeContentRegions result
    article,        \* where article.content came from: "none", "readability", "region"
    phases,         \* DOM/markdown operations applied so far, in order
    notifications,  \* number of addMessages calls issued by this call
    sink,           \* state of the addMessages promise
    outcome,        \* "running", "returned" or "threw"
    result,         \* returned value or thrown error of cleanHtml
    clock,          \* seconds since the 120 s timer was armed
    sectionsLeft,   \* sections summarizeMarkdown still has to visit
    summaries,      \* summarizeMarkdown's summaries array (one record per kept section)
    adaptiveChunkSize, \* summarizeMarkdown's adaptiveChunkSize
    chunk,          \* locals of the intelligentSummarization call in progress
    passTimedOut,   \* a backend call of this cleanHtml call hit its 30 s timeout
    summarizer,     \* SummarizationService.summarizer: 0 = null, k = k-th model loaded
    initPromise,    \* SummarizationService.initPromise
    constThrows,    \* whether the build keeps `const` (assignment to it throws)
    input,          \* argument of the pure function being applied
    output,         \* its result
    breaker,        \* EmbeddingCircuitBreaker: [state, failureCount, lastFailureTime]
    now,            \* Date.now(), in minutes
    calls,          \* per caller, its execute call: [pc, probe, result]
    runs,           \* doInitialize runs started so far: [status, model, disposed]
    currentRun,     \* the run SummarizationService.initPromise stands for, 0 if null
    awaiting,       \* per caller, its initialize call: [on, result]
    batch,          \* one multi-URL search call: [tool, numOfResults, selected,
                    \* tasks, outcome, processed]
    pool            \* BrowserPool and its callers: [browsers, lru, pages, launched,
                    \* created, calls]

vars == <<pc, rawHtml, contentRegions, article, phases, notifications, sink,
          outcome, result, clock, sectionsLeft, summaries, adaptiveChunkSize,
          chunk, passTimedOut, summarizer, initPromise, constThrows, input,
          output, breaker, now, calls, runs, currentRun, awaiting,
          batch, pool>>

pipelineVars == <<pc, rawHtml, contentRegions, article, phases, notifications,
                  sink, outcome, result, clock, sectionsLeft, summaries,
                  adaptiveChunkSize, chunk, passTimedOut, summarizer,
                  initPromise, constThrows>>

fnVars == <<input, output>>

breakerVars == <<breaker, now, calls>>

\* What concurrent callers of SummarizationService add to its two fields.
serviceVars == <<runs, currentRun, awaiting>>

\* The state of the components other than the cleanHtml pipeline.
componentVars == <<breakerVars, serviceVars, batch, pool>>

(***************************************************************************)
(* Bounds                                                                  *)
(***************************************************************************)
MaxSentences == 3      \* longest text given to naturalExtractiveSummary
MaxPick == 2           \* largest maxSentences argument
MaxSections == 1       \* most sections in one document
MaxRegions == 2        \* most content regions in one document
MaxUnits == 4          \* most sentences and heading lines in a markdown text
MaxParagraphs == 2     \* most paragraphs in a text given to dedupeContent
MaxNow == 12           \* minutes the breaker's clock runs
MaxFailures == 7       \* most failures the breaker records
MaxRuns == 3           \* most doInitialize runs started
MaxResults == 5        \* most search results available, and largest numOfResults
MaxSiblings == 3       \* most children of the root of a Markdown tree
MaxBrowsers == 1       \* options.maxBrowsers of the pool
MaxPagesPerBrowser == 2 \* options.maxPagesPerBrowser of the pool
MaxLaunches == 3       \* most browsers launched
MaxPagesCreated == 3   \* most pages created

Max(a, b) == IF a >= b THEN a ELSE b

RECURSIVE SumSeq(_)
SumSeq(s) == IF s = <<>> THEN 0 ELSE Head(s) + SumSeq(Tail(s))

SeqsUpTo(S, n) == UNION {[1..k -> S] : k \in 0..n}

(***************************************************************************)
(* naturalExtractiveSummary                                                *)
(* A text is the sequence of its sentences (doc.sentences()); a sentence   *)
(* carries the counts the scoring reads.  Scores are kept doubled so that  *)
(* the 0.5 weight of verbs stays an integer.                               *)
(***************************************************************************)
SentenceScore2(s) ==
    4 * s.numbers + 4 * s.percentages + 4 * s.money
    + 2 * s.people + 2 * s.organizations
    + s.verbs
    - (IF s.words < 5 THEN 4 ELSE 0)

\* Array.prototype.sort((a, b) => b.score - a.score): stable, descending.
RECURSIVE SortByScoreDesc(_, _)
SortByScoreDesc(text, idxs) ==
    IF idxs = {} THEN <<>>
    ELSE LET best == CHOOSE i \in idxs : \A j \in idxs :
                        \/ SentenceScore2(text[i]) > SentenceScore2(text[j])
                        \/ /\ SentenceScore2(text[i]) = SentenceScore2(text[j])
                           /\ i <= j
         IN <<best>> \o SortByScoreDesc(text, idxs \ {best})

\* The summary as the positions (in text) of the sentences it is joined from.
naturalExtractiveSummary(text, maxSentences) ==
    IF Len(text) <= maxSentences
    THEN [i \in 1..Len(text) |-> i]
    ELSE SubSeq(SortByScoreDesc(text, 1..Len(text)), 1, maxSentences)

\* Length in characters of positions' sentences joined by single spaces.
JoinedLength(text, positions) ==
    SumSeq([i \in 1..Len(positions) |-> text[positions[i]].chars])
    + Max(Len(positions) - 1, 0)

Sentences ==
    [numbers : 0..1, percentages : {0}, money : {0}, people : {0},
     organizations : {0}, verbs : 0..1, words : {3, 8}, chars : {20}]

ExtractiveInputs ==
    [text : SeqsUpTo(Sentences, MaxSentences) \ {<<>>}, maxSentences : 1..MaxPick]

ApplyExtractive ==
    /\ ~output.done
    /\ "text" \in DOMAIN input
    /\ output' = [done |-> TRUE,
                  positions |-> naturalExtractiveSummary(input.text, input.maxSentences)]
    /\ UNCHANGED input
    /\ UNCHANGED pipelineVars
    /\ UNCHANGED componentVars

(***************************************************************************)
(* validateSummaryQuality                                                  *)
(* A summary is its length, its word count, the highest frequency of a     *)
(* word longer than 3 characters, the number of fragments longer than 5    *)
(* characters between sentence terminators, and how many of the original's *)
(* first five entities it still names.                                     *)
(***************************************************************************)
ValidateSummaryQuality(originalEntities, summary) ==
    IF summary.len < 10
    THEN [isValid |-> FALSE, score |-> 0, issues |-> <<"Summary too short">>]
    ELSE LET repetitive ==
                 /\ summary.maxRepeat > 2
                 /\ summary.maxRepeat * 100 > summary.words * 15
             noSentence == summary.sentences = 0
             lostEntities ==
                 /\ originalEntities > 2
                 /\ originalEntities > 0
                 /\ summary.preserved * 10 < 3 * originalEntities
             score == 100 - (IF repetitive THEN 20 ELSE 0)
                          - (IF noSentence THEN 30 ELSE 0)
                          - (IF lostEntities THEN 25 ELSE 0)
             issues == (IF repetitive THEN <<"Contains repetitive content">> ELSE <<>>)
                       \o (IF noSentence THEN <<"No complete sentences">> ELSE <<>>)
                       \o (IF lostEntities THEN <<"Lost important entities">> ELSE <<>>)
         IN [isValid |-> score >= 50 /\ issues = <<>>,
             score |-> score,
             issues |-> issues]

SummaryFeatures ==
    [len : {0, 9, 10, 200}, words : {8, 40}, maxRepeat : {1, 3, 7},
     sentences : {0, 2}, preserved : {0, 1, 3}, filler : {0}]

ValidateInputs ==
    {i \in [originalEntities : {0, 3, 5}, summary : SummaryFeatures] :
        i.summary.preserved <= i.originalEntities}

ApplyValidate ==
    /\ ~output.done
    /\ "summary" \in DOMAIN input
    /\ output' = [done |-> TRUE,
                  validation |-> ValidateSummaryQuality(input.originalEntities,
                                                        input.summary)]
    /\ UNCHANGED input
    /\ UNCHANGED pipelineVars
    /\ UNCHANGED componentVars

(***************************************************************************)
(* cleanHtml: program constants                                            *)
(***************************************************************************)
MIN_HTML_LENGTH == 100
MAX_HTML_LENGTH == 10000000
MIN_MARKDOWN_LENGTH == 50
DOC_TIMEOUT_S == 120
TIMEOUT_S == 30
MAX_RETRIES == 2
RETRY_WAIT_S == 1
NUM_MODELS == 3
MIN_QUALITY == 25
MAX_CHUNK_WORDS == 700
MIN_SUMMARY_LENGTH == 20
SEPARATOR_LENGTH == 7

\* Region scores are kept in hundredths (0.2 is 20).
MIN_REGION_SCORE == 10
MAIN_REGION_SCORE == 30
BEST_REGION_SCORE == 20
MIN_REGION_TEXT == 100

\* EmbeddingCircuitBreaker; times in minutes.
FAILURE_THRESHOLD == 5
OPERATION_TIMEOUT_MIN == 1
RESET_TIMEOUT_MIN == 5

\* queryDuckDuckGo: pLimit(4)
CONCURRENCY == 4

Callers == {"c1", "c2"}

IdleCall == [pc |-> "idle", probe |-> FALSE, result |-> "none"]

NotAwaiting == [on |-> 0, result |-> "idle"]

IdleHolder == [pc |-> "idle", browser |-> 0, page |-> 0, reused |-> FALSE]

NoPool == [browsers |-> <<>>, lru |-> <<>>, pages |-> <<>>, launched |-> 0,
           created |-> 0, calls |-> [c \in Callers |-> IdleHolder]]

NoBatch == [tool |-> "none", numOfResults |-> 0, selected |-> 0, tasks |-> <<>>,
            outcome |-> "idle", processed |-> <<>>]

NoResult == [kind |-> "none"]
Returned(value) == [kind |-> "value", value |-> value]

\* Returned strings: the two literals, and summaries.join('\n\n---\n\n').
EmptyString == [string |-> "", len |-> 0, parts |-> <<>>]
TooShortMarker ==
    [string |-> "Content too short after cleaning.", len |-> 33, parts |-> <<>>]

\* The catch clause of cleanHtml: every error thrown inside the try block is
\* rethrown as one of three errors, chosen by a substring of its message.
MessageIncludes(msg, needle) ==
    CASE needle = "timeout" -> msg \in {"Summarization timeout"}
      [] needle = "too large" -> msg \in {"HTML content too large for processing"}
      [] OTHER -> FALSE

CatchRethrow(msg) ==
    IF MessageIncludes(msg, "timeout")
    THEN [kind |-> "error", error |-> "Timeout while processing content", cause |-> msg]
    ELSE IF MessageIncludes(msg, "too large")
    THEN [kind |-> "error", error |-> "Content is too large to process", cause |-> msg]
    ELSE [kind |-> "error", error |-> "Error cleaning HTML", cause |-> msg]

HtmlInputs ==
    { [len |-> 0, trimLen |-> 0],              \* ""
      [len |-> 25, trimLen |-> 25],            \* "<html><body></body></html>"
      [len |-> 150, trimLen |-> 90],           \* short markup padded with blanks
      [len |-> 5000, trimLen |-> 5000],
      [len |-> 10000001, trimLen |-> 10000001] }

RegionSamples ==
    [score : {15, 25, 35}, type : {"main", "sidebar"},
     textLength : {50, 300}, sentimentOk : BOOLEAN]

\* analyzeContentRegions keeps regions scoring above 0.1, sorted by score.
SortedRegions(rs) ==
    /\ \A i \in 1..Len(rs) : rs[i].score > MIN_REGION_SCORE
    /\ \A i \in 1..Len(rs) - 1 : rs[i].score >= rs[i + 1].score

RegionLists == {rs \in SeqsUpTo(RegionSamples, MaxRegions) : SortedRegions(rs)}

\* contentRegions.filter(...): regions with enough text and acceptable sentiment.
QualityRegion(r) == r.textLength >= MIN_REGION_TEXT /\ r.sentimentOk

QualityRegions(regions) ==
    LET F[i \in 0..Len(regions)] ==
            IF i = 0 THEN <<>>
            ELSE IF QualityRegion(regions[i]) THEN Append(F[i - 1], regions[i])
            ELSE F[i - 1]
    IN F[Len(regions)]

\* candidateRegions.find(main with score > 0.3) || candidateRegions[0]
BestRegion(regions) ==
    LET qualityRegions == QualityRegions(regions)
        candidateRegions == IF Len(qualityRegions) > 0 THEN qualityRegions ELSE regions
        mains == {i \in 1..Len(candidateRegions) :
                     /\ candidateRegions[i].type = "main"
                     /\ candidateRegions[i].score > MAIN_REGION_SCORE}
    IN IF mains # {}
       THEN <<candidateRegions[CHOOSE i \in mains : \A j \in mains : i <= j]>>
       ELSE IF Len(candidateRegions) > 0 THEN <<candidateRegions[1]>> ELSE <<>>

\* Whether the region fallback of PHASE 3 produces an article.
RegionArticle(regions) ==
    LET best == BestRegion(regions)
    IN Len(regions) > 0 /\ best # <<>> /\ best[1].score > BEST_REGION_SCORE

IdleChunk == [status |-> "idle"]

\* The section the loop of summarizeMarkdown has just passed over (continue).
SkippedChunk(section) == [status |-> "skipped", quality |-> section.quality]

\* The section the loop has just pushed to summaries as it is (line 1909).
KeptChunk(section) == [status |-> "kept", quality |-> section.quality]

ResetCall ==
    /\ contentRegions' = <<>>
    /\ article' = "none"
    /\ phases' = <<>>
    /\ notifications' = 0
    /\ sink' = "idle"
    /\ clock' = 0
    /\ sectionsLeft' = 0
    /\ summaries' = <<>>
    /\ adaptiveChunkSize' = MAX_CHUNK_WORDS
    /\ chunk' = IdleChunk
    /\ passTimedOut' = FALSE

InitPipeline ==
    /\ pc = "idle"
    /\ rawHtml = [len |-> 0, trimLen |-> 0]
    /\ contentRegions = <<>>
    /\ article = "none"
    /\ phases = <<>>
    /\ notifications = 0
    /\ sink = "idle"
    /\ outcome = "none"
    /\ result = NoResult
    /\ clock = 0
    /\ sectionsLeft = 0
    /\ summaries = <<>>
    /\ adaptiveChunkSize = MAX_CHUNK_WORDS
    /\ chunk = IdleChunk
    /\ passTimedOut = FALSE
    /\ summarizer = 0
    /\ initPromise = "null"
    /\ constThrows \in BOOLEAN
    /\ breaker = [state |-> "CLOSED", failureCount |-> 0, lastFailureTime |-> 0]
    /\ now = 0
    /\ calls = [c \in Callers |-> IdleCall]
    /\ runs = <<>>
    /\ currentRun = 0
    /\ awaiting = [c \in Callers |-> NotAwaiting]
    /\ batch = NoBatch
    /\ pool = NoPool

\* An error thrown inside cleanHtml's try block ends the call in the catch clause.
ThrowInCleanHtml(msg) ==
    /\ pc' = "done"
    /\ outcome' = "threw"
    /\ result' = CatchRethrow(msg)

ReturnFromCleanHtml(value) ==
    /\ pc' = "done"
    /\ outcome' = "returned"
    /\ result' = Returned(value)

\* cleanHtml(rawHtml, url) is called: input validation.
CleanHtmlCall ==
    /\ pc = "idle"
    /\ \E html \in HtmlInputs :
        /\ rawHtml' = html
        /\ ResetCall
        /\ IF html.len = 0 \/ html.trimLen < MIN_HTML_LENGTH
           THEN ThrowInCleanHtml("HTML content too short or empty")
           ELSE IF html.len > MAX_HTML_LENGTH
           THEN ThrowInCleanHtml("HTML content too large for processing")
           ELSE /\ pc' = "analyze"
                /\ outcome' = "running"
                /\ result' = NoResult
    /\ UNCHANGED <<summarizer, initPromise, constThrows, input, output, componentVars>>

\* PHASE 1 and 2: parse the DOM, extract structured data, score the regions.
AnalyzeDocument ==
    /\ pc = "analyze"
    /\ \E regions \in RegionLists : contentRegions' = regions
    /\ phases' = phases \o <<"extractSchemaData", "analyzeContentRegions">>
    /\ pc' = "extract"
    /\ UNCHANGED <<rawHtml, article, notifications, sink, outcome, result, clock,
                   sectionsLeft, summaries, adaptiveChunkSize, chunk,
                   passTimedOut, summarizer, initPromise, constThrows, input, output, componentVars>>

\* PHASE 3: Readability, then the content-region fallback.  Without content
\* the call issues addMessages([...]) and awaits it.
ExtractMainContent ==
    /\ pc = "extract"
    /\ \E readable \in BOOLEAN :
        LET found == IF readable THEN "readability"
                     ELSE IF RegionArticle(contentRegions) THEN "region"
                     ELSE "none"
        IN /\ article' = found
           /\ phases' = Append(phases, "Readability.parse")
           /\ IF found = "none"
              THEN /\ notifications' = notifications + 1
                   /\ sink' = "pending"
                   /\ pc' = "awaitAddMessages"
              ELSE /\ UNCHANGED <<notifications, sink>>
                   /\ pc' = "convert"
    /\ UNCHANGED <<rawHtml, contentRegions, outcome, result, clock, sectionsLeft,
                   summaries, adaptiveChunkSize, chunk, passTimedOut, summarizer,
                   initPromise, constThrows, input, output, componentVars>>

\* addMessages resolves: cleanHtml resumes and returns ''.
AddMessagesResolves ==
    /\ pc = "awaitAddMessages"
    /\ sink = "pending"
    /\ sink' = "resolved"
    /\ ReturnFromCleanHtml(EmptyString)
    /\ UNCHANGED <<rawHtml, contentRegions, article, phases, notifications, clock,
                   sectionsLeft, summaries, adaptiveChunkSize, chunk,
                   passTimedOut, summarizer, initPromise, constThrows, input, output, componentVars>>

\* addMessages rejects: the await throws inside the try block.
AddMessagesRejects ==
    /\ pc = "awaitAddMessages"
    /\ sink = "pending"
    /\ sink' = "rejected"
    /\ ThrowInCleanHtml("addMessages failed")
    /\ UNCHANGED <<rawHtml, contentRegions, article, phases, notifications, clock,
                   sectionsLeft, summaries, adaptiveChunkSize, chunk,
                   passTimedOut, summarizer, initPromise, constThrows, input, output, componentVars>>

(***************************************************************************)
(* summarizeMarkdown and intelligentSummarization                          *)
(***************************************************************************)
Tiny == [numbers |-> 1, percentages |-> 1, money |-> 0, people |-> 0,
         organizations |-> 0, verbs |-> 0, words |-> 2, chars |-> 8]
Short == [numbers |-> 0, percentages |-> 0, money |-> 0, people |-> 1,
          organizations |-> 0, verbs |-> 2, words |-> 20, chars |-> 100]
Long == [numbers |-> 0, percentages |-> 0, money |-> 0, people |-> 0,
         organizations |-> 0, verbs |-> 1, words |-> 350, chars |-> 2000]
Huge == [numbers |-> 0, percentages |-> 0, money |-> 0, people |-> 0,
         organizations |-> 0, verbs |-> 1, words |-> 1000, chars |-> 6000]

Section(text, quality, tabular, list) ==
    [text |-> text, quality |-> quality, tabular |-> tabular, list |-> list]

TinyMix == <<Tiny, Long, Long, Tiny, Tiny, Tiny, Tiny>>

SectionSamples ==
    { Section(<<Short>>, 20, FALSE, FALSE),
      Section(<<Short>>, 60, FALSE, FALSE),
      Section(<<Long>>, 80, TRUE, FALSE),
      Section(<<Long, Long>>, 60, FALSE, TRUE),
      Section(<<Long, Long>>, 40, FALSE, FALSE),
      Section(<<Huge>>, 40, FALSE, FALSE),
      Section(<<Huge>>, 20, FALSE, FALSE),
      Section(TinyMix, 60, FALSE, TRUE),
      Section(TinyMix, 80, FALSE, FALSE),
      Section(TinyMix, 80, TRUE, TRUE) }

WordCount(text) == SumSeq([i \in 1..Len(text) |-> text[i].words])
TextLength(text) == JoinedLength(text, [i \in 1..Len(text) |-> i])
NumberCount(text) == SumSeq([i \in 1..Len(text) |-> text[i].numbers])
\* the first five of people, places and organizations named by the text
OriginalEntities(text) ==
    LET n == SumSeq([i \in 1..Len(text) |-> text[i].people + text[i].organizations])
    IN IF n > 5 THEN 5 ELSE n

\* Math.floor(maxChunkWords * factor) by overall quality
AdaptiveChunkSize(overallQuality) ==
    IF overallQuality >= 70 THEN (MAX_CHUNK_WORDS * 14) \div 10
    ELSE IF overallQuality >= 50 THEN (MAX_CHUNK_WORDS * 12) \div 10
    ELSE IF overallQuality < 30 THEN (MAX_CHUNK_WORDS * 8) \div 10
    ELSE MAX_CHUNK_WORDS

HasNumericData(text) == NumberCount(text) * 10 > WordCount(text)

ShouldSummarize(section, chunkSize) ==
    IF section.quality >= 70 THEN WordCount(section.text) > 300
    ELSE IF section.quality >= 50 THEN WordCount(section.text) > 500
    ELSE WordCount(section.text) > chunkSize

TargetLength(section) ==
    IF section.quality >= 70
    THEN (IF section.tabular \/ HasNumericData(section.text) THEN 90 ELSE 70)
    ELSE IF section.quality >= 50
    THEN (IF section.list THEN 50 ELSE 60)
    ELSE 40

\* classifyContent: the content type follows from the structure flags; the
\* information density rests on the NLP toolkit's scores and is an input.
ContentType(section) ==
    LET hasNumbers == NumberCount(section.text) > 0
    IN IF hasNumbers /\ (section.tabular \/ section.list) THEN "structured"
       ELSE IF hasNumbers \/ section.list THEN "mixed"
       ELSE "narrative"

Densities == {"high", "medium", "low"}

\* Strategy as it would be if the gentle narrative strategy allowed a third
\* iteration.
StrategyWithThirdIteration(classification) ==
    IF classification.contentType = "structured"
       /\ classification.informationDensity = "high"
    THEN [firstPassRatio10 |-> 16, compressionLevel |-> "gentle",
          preserveStructure |-> TRUE, maxIterations |-> 2]
    ELSE IF classification.contentType = "structured"
    THEN [firstPassRatio10 |-> 15, compressionLevel |-> "moderate",
          preserveStructure |-> TRUE, maxIterations |-> 2]
    ELSE IF classification.informationDensity = "low"
    THEN [firstPassRatio10 |-> 12, compressionLevel |-> "aggressive",
          preserveStructure |-> FALSE, maxIterations |-> 1]
    ELSE IF classification.informationDensity = "high"
    THEN [firstPassRatio10 |-> 19, compressionLevel |-> "gentle",
          preserveStructure |-> FALSE, maxIterations |-> 3]
    ELSE [firstPassRatio10 |-> 18, compressionLevel |-> "moderate",
          preserveStructure |-> FALSE, maxIterations |-> 2]

Strategy(classification) ==
    IF classification.contentType = "structured"
       /\ classification.informationDensity = "high"
    THEN [firstPassRatio10 |-> 16, compressionLevel |-> "gentle",
          preserveStructure |-> TRUE, maxIterations |-> 2]
    ELSE IF classification.contentType = "structured"
    THEN [firstPassRatio10 |-> 15, compressionLevel |-> "moderate",
          preserveStructure |-> TRUE, maxIterations |-> 2]
    ELSE IF classification.informationDensity = "low"
    THEN [firstPassRatio10 |-> 12, compressionLevel |-> "aggressive",
          preserveStructure |-> FALSE, maxIterations |-> 1]
    ELSE IF classification.informationDensity = "high"
    THEN [firstPassRatio10 |-> 19, compressionLevel |-> "gentle",
          preserveStructure |-> FALSE, maxIterations |-> 2]
    ELSE [firstPassRatio10 |-> 18, compressionLevel |-> "moderate",
          preserveStructure |-> FALSE, maxIterations |-> 2]

\* Math.ceil(targetLength / 20)
MaxFallbackSentences(targetLength) == (targetLength + 19) \div 20

\* postProcessSummary strips filler phrases: the summary loses its filler words.
PostProcessSummary(summary) ==
    [summary EXCEPT !.words = @ - summary.filler,
                    !.len = @ - 6 * summary.filler,
                    !.filler = 0]

\* What the backend may answer (result[0].summary_text.trim() || '').
BackendSummaries ==
    { [len |-> 0, words |-> 0, maxRepeat |-> 0, sentences |-> 0, preserved |-> 0, filler |-> 0],
      [len |-> 200, words |-> 30, maxRepeat |-> 1, sentences |-> 2, preserved |-> 0, filler |-> 0],
      [len |-> 600, words |-> 100, maxRepeat |-> 2, sentences |-> 5, preserved |-> 0, filler |-> 0],
      [len |-> 560, words |-> 95, maxRepeat |-> 2, sentences |-> 5, preserved |-> 0, filler |-> 10],
      [len |-> 200, words |-> 30, maxRepeat |-> 7, sentences |-> 2, preserved |-> 0, filler |-> 0] }

\* What extractKeyInformation and createGeneralFallback may yield for a text:
\* the number of key facts, and the features of the string built from them.
KeyFacts ==
    { [keyInfo |-> 0, len |-> 28, words |-> 3, maxRepeat |-> 1, sentences |-> 1, preserved |-> 0, filler |-> 0],
      [keyInfo |-> 3, len |-> 80, words |-> 12, maxRepeat |-> 1, sentences |-> 2, preserved |-> 0, filler |-> 0],
      [keyInfo |-> 3, len |-> 40, words |-> 5, maxRepeat |-> 3, sentences |-> 1, preserved |-> 0, filler |-> 0],
      [keyInfo |-> 1, len |-> 15, words |-> 2, maxRepeat |-> 1, sentences |-> 1, preserved |-> 0, filler |-> 0] }

\* Lines 1593-1622: the first summary failed validation.
FallbackAfterRejection(text, targetLength, facts) ==
    LET extractive == naturalExtractiveSummary(text, MaxFallbackSentences(targetLength))
        extractiveLen == JoinedLength(text, extractive)
        factsValid == ValidateSummaryQuality(OriginalEntities(text), facts).isValid
    IN IF facts.keyInfo > 0 /\ factsValid
       THEN [tier |-> "keyFacts", len |-> facts.len, tried |-> <<"keyFacts">>]
       ELSE LET before == IF facts.keyInfo > 0 THEN <<"keyFacts">> ELSE <<>>
            IN IF extractiveLen > 30
               THEN [tier |-> "extractive", len |-> extractiveLen,
                     tried |-> before \o <<"extractive">>]
               ELSE [tier |-> "original", len |-> TextLength(text),
                     tried |-> before \o <<"extractive", "original">>]

\* Lines 1695-1716: the catch clause of intelligentSummarization.
CatchFallback(text, targetLength, facts) ==
    LET extractive == naturalExtractiveSummary(text, MaxFallbackSentences(targetLength))
        extractiveLen == JoinedLength(text, extractive)
    IN IF extractiveLen > 50
       THEN [tier |-> "extractive", len |-> extractiveLen, tried |-> <<"extractive">>]
       ELSE IF facts.keyInfo > 0
       THEN [tier |-> "keyFacts", len |-> facts.len,
             tried |-> <<"extractive", "keyFacts">>]
       ELSE [tier |-> "original", len |-> TextLength(text),
             tried |-> <<"extractive", "keyFacts", "original">>]

(***************************************************************************)
(* cleanHtml, second half: conversion and summarization                    *)
(***************************************************************************)
NoSummary ==
    [len |-> 0, words |-> 0, maxRepeat |-> 0, sentences |-> 0, preserved |-> 0,
     filler |-> 0]

ResponseTimes == {0}              \* seconds a successful await may take
FailureTimes == {0, TIMEOUT_S}    \* immediate throw, or the 30 s timeout
OverallQualities == {20, 60}

RunningChunk(section, density) ==
    [status |-> "running", text |-> section.text, quality |-> section.quality,
     target |-> TargetLength(section),
     classification |-> [contentType |-> ContentType(section),
                         informationDensity |-> density],
     pass |-> 1, attempt |-> 0, model |-> 0, first |-> NoSummary,
     final |-> NoSummary]

\* summaries.join('\n\n---\n\n')
Joined(parts) ==
    IF parts = <<>> THEN EmptyString
    ELSE [string |-> "joined",
          len |-> SumSeq([i \in 1..Len(parts) |-> parts[i].len])
                  + SEPARATOR_LENGTH * (Len(parts) - 1),
          parts |-> parts]

\* Lines 2022-2071: clean the article body, convert it to Markdown, normalise,
\* then arm the 120 s timer and start summarizeMarkdown (quality, chunking).
\* The article and the regions are consumed here and not read again.
ConvertToMarkdown ==
    /\ pc = "convert"
    /\ \E markdownLength \in {30, 5000} :
        IF markdownLength < MIN_MARKDOWN_LENGTH
        THEN /\ phases' = phases \o <<"removeBoilerplate(body)", "turndown",
                                      "prettyWhitespace", "dedupeContent">>
             /\ ReturnFromCleanHtml(TooShortMarker)
             /\ UNCHANGED <<sectionsLeft, adaptiveChunkSize, clock>>
        ELSE /\ phases' = phases \o <<"removeBoilerplate(body)", "turndown",
                                      "prettyWhitespace", "dedupeContent",
                                      "cleanMarkdownArtifacts">>
             /\ \E quality \in OverallQualities :
                    adaptiveChunkSize' = AdaptiveChunkSize(quality)
             /\ sectionsLeft' \in 0..MaxSections
             /\ clock' = 0
             /\ pc' = "sections"
             /\ UNCHANGED <<outcome, result>>
    /\ article' = "consumed"
    /\ contentRegions' = <<>>
    /\ UNCHANGED <<rawHtml, notifications, sink, summaries,
                   chunk, passTimedOut, summarizer, initPromise, constThrows, input, output, componentVars>>

\* NextSection as it would be without the quality test of line 1861.
NextSectionKeepsLowQuality ==
    /\ pc = "sections"
    /\ sectionsLeft > 0
    /\ \E section \in SectionSamples :
        IF ~ShouldSummarize(section, adaptiveChunkSize)
        THEN /\ summaries' = Append(summaries,
                                    [tier |-> "verbatim",
                                     len |-> TextLength(section.text)])
             /\ sectionsLeft' = sectionsLeft - 1
             /\ chunk' = KeptChunk(section)
             /\ UNCHANGED pc
        ELSE /\ \E density \in Densities : chunk' = RunningChunk(section, density)
             /\ pc' = "getSummarizer"
             /\ UNCHANGED <<sectionsLeft, summaries>>
    /\ UNCHANGED <<rawHtml, contentRegions, article, phases, notifications, sink,
                   outcome, result, clock, adaptiveChunkSize, passTimedOut,
                   summarizer, initPromise, constThrows, input, output, componentVars>>

\* Lines 1853-1911: the loop over sections, up to the call of
\* intelligentSummarization.
NextSection ==
    /\ pc = "sections"
    /\ sectionsLeft > 0
    /\ \E section \in SectionSamples :
        IF section.quality < MIN_QUALITY
        THEN /\ sectionsLeft' = sectionsLeft - 1
             /\ chunk' = SkippedChunk(section)
             /\ UNCHANGED <<pc, summaries>>
        ELSE IF ~ShouldSummarize(section, adaptiveChunkSize)
        THEN /\ summaries' = Append(summaries,
                                    [tier |-> "verbatim",
                                     len |-> TextLength(section.text)])
             /\ sectionsLeft' = sectionsLeft - 1
             /\ chunk' = KeptChunk(section)
             /\ UNCHANGED pc
        ELSE /\ \E density \in Densities : chunk' = RunningChunk(section, density)
             /\ pc' = "getSummarizer"
             /\ UNCHANGED <<sectionsLeft, summaries>>
    /\ UNCHANGED <<rawHtml, contentRegions, article, phases, notifications, sink,
                   outcome, result, clock, adaptiveChunkSize, passTimedOut,
                   summarizer, initPromise, constThrows, input, output, componentVars>>

\* Line 1913 and 2073: all sections visited, cleanHtml returns the joined summaries.
FinishSummarize ==
    /\ pc = "sections"
    /\ sectionsLeft = 0
    /\ ReturnFromCleanHtml(Joined(summaries))
    /\ UNCHANGED <<rawHtml, contentRegions, article, phases, notifications, sink,
                   clock, sectionsLeft, summaries, adaptiveChunkSize, chunk,
                   passTimedOut, summarizer, initPromise, constThrows, input, output, componentVars>>

\* An error that leaves intelligentSummarization propagates through
\* summarizeMarkdown into cleanHtml's catch clause.
ChunkThrows(msg) ==
    /\ chunk' = [status |-> "threw", text |-> chunk.text,
                 quality |-> chunk.quality, cause |-> msg]
    /\ ThrowInCleanHtml(msg)

\* intelligentSummarization returns r; summarizeMarkdown keeps it if it is
\* longer than 20 characters and the section text otherwise (lines 1902-1907).
ChunkReturns(r, cause) ==
    /\ chunk' = [status |-> "returned", text |-> chunk.text,
                 quality |-> chunk.quality,
                 target |-> chunk.target, pass |-> chunk.pass,
                 tier |-> r.tier, len |-> r.len, tried |-> r.tried,
                 cause |-> cause]
    /\ summaries' = Append(summaries,
                           IF r.len > MIN_SUMMARY_LENGTH
                           THEN [tier |-> r.tier, len |-> r.len]
                           ELSE [tier |-> "verbatim", len |-> TextLength(chunk.text)])
    /\ sectionsLeft' = sectionsLeft - 1
    /\ pc' = "sections"
    /\ UNCHANGED <<outcome, result>>

\* Lines 1520-1529 with SummarizationService.initialize (304-310).
GetSummarizer ==
    /\ pc = "getSummarizer"
    /\ IF TextLength(chunk.text) < 50
       THEN /\ ChunkThrows("Input text too short for summarization")
            /\ UNCHANGED <<initPromise, summaries, sectionsLeft>>
       ELSE IF chunk.target < 10 \/ chunk.target > 1000
       THEN /\ ChunkThrows("Invalid target length for summarization")
            /\ UNCHANGED <<initPromise, summaries, sectionsLeft>>
       ELSE IF summarizer # 0
       THEN /\ pc' = "summarize"
            /\ UNCHANGED <<chunk, initPromise, outcome, result, summaries,
                           sectionsLeft>>
       ELSE IF initPromise = "rejected"
       THEN /\ ChunkThrows("Failed to initialize any summarization model")
            /\ UNCHANGED <<initPromise, summaries, sectionsLeft>>
       ELSE /\ initPromise' = "pending"
            /\ chunk' = [chunk EXCEPT !.model = 1]
            /\ pc' = "loadModel"
            /\ UNCHANGED <<outcome, result, summaries, sectionsLeft>>
    /\ UNCHANGED <<rawHtml, contentRegions, article, phases, notifications, sink,
                   clock, adaptiveChunkSize, passTimedOut, summarizer,
                   constThrows, input, output, componentVars>>

\* doInitialize (312-340): the current candidate model loads in time.
LoadModelSucceeds ==
    /\ pc = "loadModel"
    /\ \E d \in ResponseTimes :
        /\ clock + d <= DOC_TIMEOUT_S
        /\ clock' = clock + d
    /\ summarizer' = chunk.model
    /\ initPromise' = "fulfilled"
    /\ pc' = "summarize"
    /\ UNCHANGED <<rawHtml, contentRegions, article, phases, notifications, sink,
                   outcome, result, sectionsLeft, summaries, adaptiveChunkSize,
                   chunk, passTimedOut, constThrows, input, output, componentVars>>

\* doInitialize: the current candidate fails to load or times out; the next
\* candidate is tried, and after the last one initialize rejects.
LoadModelFails ==
    /\ pc = "loadModel"
    /\ \E d \in FailureTimes :
        /\ clock + d <= DOC_TIMEOUT_S
        /\ clock' = clock + d
    /\ IF chunk.model < NUM_MODELS
       THEN /\ chunk' = [chunk EXCEPT !.model = @ + 1]
            /\ UNCHANGED <<pc, initPromise, outcome, result>>
       ELSE /\ initPromise' = "rejected"
            /\ ChunkThrows("Failed to initialize any summarization model")
    /\ UNCHANGED <<rawHtml, contentRegions, article, phases, notifications, sink,
                   sectionsLeft, summaries, adaptiveChunkSize, passTimedOut,
                   summarizer, constThrows, input, output, componentVars>>

\* intelligentSummarization between two awaits: what follows the answer
\* `summary` of the backend to the call of pass c.pass (lines 1591-1694).
\* Either the chunk's result, or the chunk as it enters the next pass.
AfterPass(c, summary, facts, assignThrows) ==
    LET entities == OriginalEntities(c.text)
        strategy == Strategy(c.classification)
        Return(r, cause) == [return |-> TRUE, result |-> r, cause |-> cause]
        Continue(next) == [return |-> FALSE, chunk |-> next]
        Abstractive(tier, sm) == [tier |-> tier, len |-> sm.len, tried |-> <<>>]
    IN
    IF c.pass = 1
    THEN IF ~ValidateSummaryQuality(entities, summary).isValid
         THEN Return(FallbackAfterRejection(c.text, c.target, facts), "rejected")
         ELSE IF assignThrows
         \* firstSummary is declared const: the assignment of line 1625 throws
         THEN Return(CatchFallback(c.text, c.target, facts), "TypeError")
         ELSE LET first == PostProcessSummary(summary)
              IN IF first.words <= c.target \/ strategy.maxIterations = 1
                 THEN Return(Abstractive("firstPass", first), "none")
                 ELSE Continue([c EXCEPT !.pass = 2, !.attempt = 0, !.first = first])
    ELSE IF c.pass = 2
    THEN IF summary.len > 0
         THEN LET final == PostProcessSummary(summary)
              IN IF ~ValidateSummaryQuality(entities, final).isValid
                 THEN Return(Abstractive("firstPass", PostProcessSummary(c.first)),
                             "none")
                 ELSE IF /\ strategy.maxIterations = 3
                         /\ final.words * 10 > c.target * 12
                 THEN Continue([c EXCEPT !.pass = 3, !.attempt = 0, !.final = final])
                 ELSE Return(Abstractive("secondPass", final), "none")
         ELSE Return(Abstractive("firstPass", c.first), "none")
    ELSE IF summary.len > 30 /\ ValidateSummaryQuality(entities, summary).isValid
         THEN Return(Abstractive("thirdPass", PostProcessSummary(summary)), "none")
         ELSE Return(Abstractive("secondPass", c.final), "none")

\* SummarizationService.summarize (342-364): the backend answers in time.
BackendResponds ==
    /\ pc = "summarize"
    /\ \E d \in ResponseTimes :
        /\ clock + d <= DOC_TIMEOUT_S
        /\ clock' = clock + d
    /\ \E after \in {AfterPass(chunk, summary, facts, constThrows) :
                          summary \in BackendSummaries, facts \in KeyFacts} :
        IF after.return
        THEN ChunkReturns(after.result, after.cause)
        ELSE /\ chunk' = after.chunk
             /\ UNCHANGED <<pc, outcome, result, summaries, sectionsLeft>>
    /\ UNCHANGED <<rawHtml, contentRegions, article, phases, notifications, sink,
                   adaptiveChunkSize, passTimedOut, summarizer, initPromise,
                   constThrows, input, output, componentVars>>

\* BackendFails as it would be with the summarize call outside the try block:
\* the error of the last attempt leaves intelligentSummarization.
BackendFailsUncaught ==
    /\ pc = "summarize"
    /\ \E d \in FailureTimes :
        /\ clock + d <= DOC_TIMEOUT_S
        /\ clock' = clock + d
        /\ passTimedOut' = (passTimedOut \/ d = TIMEOUT_S)
    /\ IF chunk.attempt = MAX_RETRIES - 1
       THEN /\ ChunkThrows("Backend error")
            /\ UNCHANGED <<summaries, sectionsLeft>>
       ELSE /\ chunk' = [chunk EXCEPT !.attempt = @ + 1]
            /\ pc' = "retryWait"
            /\ UNCHANGED <<outcome, result, summaries, sectionsLeft>>
    /\ UNCHANGED <<rawHtml, contentRegions, article, phases, notifications, sink,
                   adaptiveChunkSize, summarizer, initPromise, constThrows, input,
                   output, componentVars>>

\* summarize: the backend throws or the 30 s race rejects.  The last attempt
\* rethrows into the catch clause of intelligentSummarization (1695-1716).
BackendFails ==
    /\ pc = "summarize"
    /\ \E d \in FailureTimes :
        /\ clock + d <= DOC_TIMEOUT_S
        /\ clock' = clock + d
        /\ passTimedOut' = (passTimedOut \/ d = TIMEOUT_S)
    /\ IF chunk.attempt = MAX_RETRIES - 1
       THEN \E r \in {CatchFallback(chunk.text, chunk.target, facts) :
                           facts \in KeyFacts} :
                ChunkReturns(r, "backend")
       ELSE /\ chunk' = [chunk EXCEPT !.attempt = @ + 1]
            /\ pc' = "retryWait"
            /\ UNCHANGED <<outcome, result, summaries, sectionsLeft>>
    /\ UNCHANGED <<rawHtml, contentRegions, article, phases, notifications, sink,
                   adaptiveChunkSize, summarizer, initPromise, constThrows, input, output, componentVars>>

\* summarize, line 360: wait one second before the retry.
RetryWait ==
    /\ pc = "retryWait"
    /\ clock + RETRY_WAIT_S <= DOC_TIMEOUT_S
    /\ clock' = clock + RETRY_WAIT_S
    /\ pc' = "summarize"
    /\ UNCHANGED <<rawHtml, contentRegions, article, phases, notifications, sink,
                   outcome, result, sectionsLeft, summaries, adaptiveChunkSize,
                   chunk, passTimedOut, summarizer, initPromise, constThrows, input, output, componentVars>>

\* The longest the await at pc can last.
MaxWait(at) == IF at = "retryWait" THEN RETRY_WAIT_S ELSE TIMEOUT_S

\* Lines 2065-2071: the 120 s timer wins the race while summarizeMarkdown is
\* suspended in an await; the abandoned work is not followed further.
DocTimeout ==
    /\ pc \in {"loadModel", "summarize", "retryWait"}
    /\ clock + MaxWait(pc) >= DOC_TIMEOUT_S
    /\ clock' = DOC_TIMEOUT_S
    /\ chunk' = [status |-> "abandoned", text |-> chunk.text,
                 quality |-> chunk.quality, cause |-> "Summarization timeout"]
    /\ ThrowInCleanHtml("Summarization timeout")
    /\ UNCHANGED <<rawHtml, contentRegions, article, phases, notifications, sink,
                   sectionsLeft, summaries, adaptiveChunkSize, passTimedOut,
                   summarizer, initPromise, constThrows, input, output, componentVars>>

NoFunction == [done |-> TRUE]

Init ==
    /\ InitPipeline
    /\ input = NoFunction
    /\ output = NoFunction

Next ==
    \/ CleanHtmlCall
    \/ AnalyzeDocument
    \/ ExtractMainContent
    \/ AddMessagesResolves
    \/ AddMessagesRejects
    \/ ConvertToMarkdown
    \/ NextSection
    \/ FinishSummarize
    \/ GetSummarizer
    \/ LoadModelSucceeds
    \/ LoadModelFails
    \/ BackendResponds
    \/ BackendFails
    \/ RetryWait
    \/ DocTimeout

Spec == Init /\ [][Next]_vars

\* A pure function is applied to every input of a bounded set, the pipeline
\* standing idle.
InitFunction(inputs) ==
    /\ InitPipeline
    /\ constThrows = TRUE
    /\ input \in inputs
    /\ output = [done |-> FALSE]

InitExtractive == InitFunction(ExtractiveInputs)

NextExtractive == ApplyExtractive

SpecExtractive == InitExtractive /\ [][NextExtractive]_vars

InitValidate == InitFunction(ValidateInputs)

NextValidate == ApplyValidate

SpecValidate == InitValidate /\ [][NextValidate]_vars

(***************************************************************************)
(* intelligentChunk                                                        *)
(* A markdown text is the sequence of its units: sentences and heading     *)
(* lines, each with its number of words and the separator written before  *)
(* it ("rule" is a line of ---, "para" a blank line, "line" plain white    *)
(* space).  A chunk is the sequence of the positions of the units it is    *)
(* made of.  White space at the edges of a split part is left out of the   *)
(* word counts.                                                            *)
(***************************************************************************)
ChunkUnits ==
    { u \in [words : {1, 3}, kind : {"sentence", "heading"},
             sep : {"rule", "para", "line"}] :
        u.kind = "heading" => (u.sep = "para" /\ u.words = 3) }

\* A heading line opens no text: /\n(#{1,6}\s+[^\n]+)\n/ needs a line before it.
ChunkInputs ==
    { i \in [markdown : SeqsUpTo(ChunkUnits, MaxUnits), maxChunkWords : {2, 3}] :
        \A k \in 1..Len(i.markdown) :
            i.markdown[k].kind = "heading" => k > 1 }

\* trimmed.split(/\s+/).length of the text made of the units at idxs
ChunkWords(md, idxs) == SumSeq([k \in 1..Len(idxs) |-> md[idxs[k]].words])

\* String.split at a separator: the groups of idxs between units written
\* after the separator sep.
RECURSIVE SplitBy(_, _, _)
SplitBy(md, idxs, sep) ==
    LET n == Len(idxs)
    IN IF n = 0 THEN <<>>
       ELSE IF n = 1 THEN <<idxs>>
       ELSE LET front == SplitBy(md, SubSeq(idxs, 1, n - 1), sep)
            IN IF md[idxs[n]].sep = sep
               THEN Append(front, <<idxs[n]>>)
               ELSE [front EXCEPT ![Len(front)] = Append(@, idxs[n])]

\* trimmed.split(/\n(#{1,6}\s+[^\n]+)\n/): a heading line with a line before
\* it and a line after it is a part of its own, and so is the text between two
\* of them.  HeaderParts splits the first n units of section.
RECURSIVE HeaderParts(_, _, _)
HeaderParts(md, section, n) ==
    LET IsHeader(k) == /\ 1 < k
                       /\ k < Len(section)
                       /\ md[section[k]].kind = "heading"
    IN IF n = 0 THEN <<>>
       ELSE IF n = 1 THEN <<<<section[1]>>>>
       ELSE LET front == HeaderParts(md, section, n - 1)
            IN IF IsHeader(n) \/ IsHeader(n - 1)
               THEN Append(front, <<section[n]>>)
               ELSE [front EXCEPT ![Len(front)] = Append(@, section[n])]

HeaderSplit(md, section) == HeaderParts(md, section, Len(section))

PushChunk(out, currentChunk) ==
    IF currentChunk # <<>> THEN Append(out, currentChunk) ELSE out

\* Lines 1262-1282: one turn of the loop over the parts of headerSplit.
HeaderStep(md, st, part, maxChunkWords) ==
    LET potentialChunk == st.currentChunk \o part
    IN IF ChunkWords(md, potentialChunk) <= maxChunkWords
       THEN [st EXCEPT !.currentChunk = potentialChunk]
       ELSE [subChunks |-> PushChunk(st.subChunks, st.currentChunk),
             currentChunk |-> part]

\* Lines 1305-1326: a paragraph over the budget, regrouped by sentences.
RECURSIVE SentenceFold(_, _, _)
SentenceFold(md, sentences, maxChunkWords) ==
    IF sentences = <<>> THEN [subChunks |-> <<>>, currentChunk |-> <<>>]
    ELSE LET n == Len(sentences)
             st == SentenceFold(md, SubSeq(sentences, 1, n - 1), maxChunkWords)
             potential == Append(st.currentChunk, sentences[n])
         IN IF ChunkWords(md, potential) <= maxChunkWords
            THEN [st EXCEPT !.currentChunk = potential]
            ELSE [subChunks |-> PushChunk(st.subChunks, st.currentChunk),
                  currentChunk |-> <<sentences[n]>>]

SentenceChunks(md, paragraph, maxChunkWords) ==
    LET st == SentenceFold(md, paragraph, maxChunkWords)
    IN PushChunk(st.subChunks, st.currentChunk)

\* ParagraphStep as it would be if the chunk under construction were dropped
\* when the next paragraph does not fit.
ParagraphStepDropsCurrent(md, st, paragraph, maxChunkWords) ==
    LET potentialChunk == st.currentChunk \o paragraph
    IN IF ChunkWords(md, potentialChunk) <= maxChunkWords
       THEN [st EXCEPT !.currentChunk = potentialChunk]
       ELSE IF ChunkWords(md, paragraph) > maxChunkWords
       THEN [st EXCEPT !.subChunks =
                 st.subChunks \o SentenceChunks(md, paragraph, maxChunkWords)]
       ELSE [subChunks |-> st.subChunks, currentChunk |-> paragraph]

\* Lines 1288-1331: one turn of the loop over the paragraphs.  After a paragraph
\* was regrouped by sentences currentChunk keeps its value (it is not reset).
ParagraphStep(md, st, paragraph, maxChunkWords) ==
    LET potentialChunk == st.currentChunk \o paragraph
        pushed == PushChunk(st.subChunks, st.currentChunk)
    IN IF ChunkWords(md, potentialChunk) <= maxChunkWords
       THEN [st EXCEPT !.currentChunk = potentialChunk]
       ELSE IF ChunkWords(md, paragraph) > maxChunkWords
       THEN [st EXCEPT !.subChunks =
                 pushed \o SentenceChunks(md, paragraph, maxChunkWords)]
       ELSE [subChunks |-> pushed, currentChunk |-> paragraph]

RECURSIVE HeaderFold(_, _, _)
HeaderFold(md, parts, maxChunkWords) ==
    IF parts = <<>> THEN [subChunks |-> <<>>, currentChunk |-> <<>>]
    ELSE LET n == Len(parts)
         IN HeaderStep(md, HeaderFold(md, SubSeq(parts, 1, n - 1), maxChunkWords),
                       parts[n], maxChunkWords)

RECURSIVE ParagraphFold(_, _, _)
ParagraphFold(md, paragraphs, maxChunkWords) ==
    IF paragraphs = <<>> THEN [subChunks |-> <<>>, currentChunk |-> <<>>]
    ELSE LET n == Len(paragraphs)
         IN ParagraphStep(md,
                          ParagraphFold(md, SubSeq(paragraphs, 1, n - 1), maxChunkWords),
                          paragraphs[n], maxChunkWords)

\* Lines 1241-1339: the chunks of one major section.
SectionChunks(md, section, maxChunkWords) ==
    IF ChunkWords(md, section) <= maxChunkWords THEN <<section>>
    ELSE LET headerSplit == HeaderSplit(md, section)
         IN IF Len(headerSplit) > 1
            THEN LET st == HeaderFold(md, headerSplit, maxChunkWords)
                 IN PushChunk(st.subChunks, st.currentChunk)
            ELSE LET st == ParagraphFold(md, SplitBy(md, section, "para"),
                                         maxChunkWords)
                 IN PushChunk(st.subChunks, st.currentChunk)

RECURSIVE ConcatChunks(_, _, _)
ConcatChunks(md, majorSections, maxChunkWords) ==
    IF majorSections = <<>> THEN <<>>
    ELSE SectionChunks(md, Head(majorSections), maxChunkWords)
         \o ConcatChunks(md, Tail(majorSections), maxChunkWords)

intelligentChunk(markdown, maxChunkWords) ==
    ConcatChunks(markdown,
                 SplitBy(markdown, [k \in 1..Len(markdown) |-> k], "rule"),
                 maxChunkWords)

ApplyChunk ==
    /\ ~output.done
    /\ "markdown" \in DOMAIN input
    /\ output' = [done |-> TRUE,
                  chunks |-> intelligentChunk(input.markdown, input.maxChunkWords)]
    /\ UNCHANGED input
    /\ UNCHANGED pipelineVars
    /\ UNCHANGED componentVars

InitChunk == InitFunction(ChunkInputs)

NextChunk == ApplyChunk

SpecChunk == InitChunk /\ [][NextChunk]_vars

(***************************************************************************)
(* dedupeContent                                                           *)
(* A paragraph is the sequence of its sentences (the pieces between . ! ?) *)
(* and whether it starts with #, ** or ```.  A sentence is its wording     *)
(* (words), its spelling (variant: case and punctuation) and its length;   *)
(* normalizing forgets the spelling.                                       *)
(***************************************************************************)
DedupeSentences ==
    { [words |-> "a", variant |-> 1, len |-> 8],
      [words |-> "b", variant |-> 1, len |-> 15],
      [words |-> "c", variant |-> 1, len |-> 30],
      [words |-> "c", variant |-> 2, len |-> 30],
      [words |-> "d", variant |-> 1, len |-> 30] }

DedupeParagraphs ==
    [structural : BOOLEAN, sentences : SeqsUpTo(DedupeSentences, 2) \ {<<>>}]

DedupeInputs == [markdown : SeqsUpTo(DedupeParagraphs, MaxParagraphs)]

\* toLowerCase().replace(/[^\w\s]/g, ' ').replace(/\s+/g, ' ').trim()
NormalizeSentence(sentence) == [words |-> sentence.words, len |-> sentence.len]

NormalizeParagraph(paragraph) ==
    [k \in 1..Len(paragraph.sentences) |-> NormalizeSentence(paragraph.sentences[k])]

\* Lines 874-895: the sentences of a paragraph that are kept, given the
\* normalized sentences seen so far.
RECURSIVE UniqueSentences(_, _)
UniqueSentences(sentences, seenSentences) ==
    IF sentences = <<>> THEN [kept |-> <<>>, seen |-> seenSentences]
    ELSE LET sentence == Head(sentences)
             normalizedSentence == NormalizeSentence(sentence)
         IN IF /\ sentence.len > 10
               /\ normalizedSentence.len > 20
               /\ normalizedSentence \notin seenSentences
            THEN LET rest == UniqueSentences(Tail(sentences),
                                             seenSentences \cup {normalizedSentence})
                 IN [kept |-> <<sentence>> \o rest.kept, seen |-> rest.seen]
            ELSE UniqueSentences(Tail(sentences), seenSentences)

\* One turn of the loop of lines 845-904 on the paragraph at position k.
DedupeStep(st, paragraph, k) ==
    IF paragraph.structural
    THEN [st EXCEPT !.uniqueParagraphs =
              Append(@, [from |-> k, sentences |-> paragraph.sentences])]
    ELSE IF NormalizeParagraph(paragraph) \in st.seenContent THEN st
    ELSE LET unique == UniqueSentences(paragraph.sentences, st.seenSentences)
         IN IF unique.kept # <<>>
            THEN [uniqueParagraphs |->
                      Append(st.uniqueParagraphs,
                             [from |-> k, sentences |-> unique.kept]),
                  seenContent |-> st.seenContent \cup {NormalizeParagraph(paragraph)},
                  seenSentences |-> unique.seen]
            ELSE [st EXCEPT !.seenSentences = unique.seen]

RECURSIVE DedupeFold(_, _)
DedupeFold(paragraphs, n) ==
    IF n = 0
    THEN [uniqueParagraphs |-> <<>>, seenContent |-> {}, seenSentences |-> {}]
    ELSE DedupeStep(DedupeFold(paragraphs, n - 1), paragraphs[n], n)

dedupeContent(markdown) == DedupeFold(markdown, Len(markdown)).uniqueParagraphs

ApplyDedupe ==
    /\ ~output.done
    /\ "markdown" \in DOMAIN input
    /\ "maxChunkWords" \notin DOMAIN input
    /\ output' = [done |-> TRUE, paragraphs |-> dedupeContent(input.markdown)]
    /\ UNCHANGED input
    /\ UNCHANGED pipelineVars
    /\ UNCHANGED componentVars

InitDedupe == InitFunction(DedupeInputs)

NextDedupe == ApplyDedupe

SpecDedupe == InitDedupe /\ [][NextDedupe]_vars

(***************************************************************************)
(* remarkCleanMarkdown                                                     *)
(* A Markdown tree is a node with children; a text node carries the length *)
(* of its value and whether it is made of punctuation and white space      *)
(* only, an image whether it has an alt text.  Trees are without links.    *)
(* visit is the pre-order walk of unist-util-visit: after the visitor      *)
(* returns nothing for the child at an index, the walk goes into that      *)
(* child's children and then to the index after it.                        *)
(***************************************************************************)
MdNode(type, len, punct, alt, children) ==
    [type |-> type, len |-> len, punct |-> punct, alt |-> alt, children |-> children]

\* The children a parent is built from here: headings, list items, images
\* and text nodes, kept and removable ones of each.
MdSamples ==
    { MdNode("heading", 0, FALSE, FALSE, <<MdNode("text", 5, FALSE, FALSE, <<>>)>>),
      MdNode("heading", 0, FALSE, FALSE, <<MdNode("text", 2, FALSE, FALSE, <<>>)>>),
      MdNode("heading", 0, FALSE, FALSE, <<MdNode("text", 5, TRUE, FALSE, <<>>)>>),
      MdNode("listItem", 0, FALSE, FALSE,
             <<MdNode("paragraph", 0, FALSE, FALSE, <<MdNode("text", 5, FALSE, FALSE, <<>>)>>)>>),
      MdNode("listItem", 0, FALSE, FALSE, <<>>),
      MdNode("image", 0, FALSE, TRUE, <<>>),
      MdNode("image", 0, FALSE, FALSE, <<>>),
      MdNode("text", 5, FALSE, FALSE, <<>>),
      MdNode("text", 5, TRUE, FALSE, <<>>) }

CleanInputs ==
    { [tree |-> MdNode("root", 0, FALSE, FALSE, children)] :
          children \in SeqsUpTo(MdSamples, MaxSiblings) }

\* children.filter(type === 'text').map(value).join('').trim().length
TextContent(node) ==
    SumSeq([k \in 1..Len(node.children) |->
               IF node.children[k].type = "text" THEN node.children[k].len ELSE 0])

\* The removal rules of the visitor (lines 971-1039).
Removable(node) ==
    CASE node.type = "image" -> ~node.alt
      [] node.type = "heading" -> TextContent(node) < 3
      [] node.type = "listItem" ->
            ~\E k \in 1..Len(node.children) :
                \/ node.children[k].type = "paragraph"
                   /\ TextContent(node.children[k]) > 3
                \/ node.children[k].type \in {"list", "blockquote"}
      [] node.type = "text" -> node.punct
      [] OTHER -> FALSE

\* parent.children.splice(index, 1)
Splice(children, index) ==
    [k \in 1..(Len(children) - 1) |->
        IF k < index THEN children[k] ELSE children[k + 1]]

\* The walk over the children of one parent from the child at index on.
RECURSIVE VisitChildren(_, _)
VisitChildren(children, index) ==
    IF index > Len(children) THEN children
    ELSE IF Removable(children[index])
    THEN VisitChildren(Splice(children, index), index + 1)
    ELSE VisitChildren(
             [children EXCEPT ![index].children = VisitChildren(@, 1)],
             index + 1)

remarkCleanMarkdown(tree) == [tree EXCEPT !.children = VisitChildren(@, 1)]

ApplyClean ==
    /\ ~output.done
    /\ "tree" \in DOMAIN input
    /\ output' = [done |-> TRUE, tree |-> remarkCleanMarkdown(input.tree)]
    /\ UNCHANGED input
    /\ UNCHANGED pipelineVars
    /\ UNCHANGED componentVars

SpecClean == InitFunction(CleanInputs) /\ [][ApplyClean]_vars

(***************************************************************************)
(* EmbeddingCircuitBreaker (semantic/SemanticRanker.ts)                    *)
(* Callers run execute concurrently; a call is suspended while the guarded *)
(* operation runs ("fresh": started within the last minute, "due": the     *)
(* one-minute timer of the race has expired).                              *)
(***************************************************************************)
Running(c) == calls[c].pc \in {"fresh", "due"}

InFlight == Cardinality({c \in Callers : Running(c)})

\* Date.now() - this.lastFailureTime > this.resetTimeout
CoolDownElapsed == now - breaker.lastFailureTime > RESET_TIMEOUT_MIN

\* recordFailure (lines 57-65)
RecordFailure(b) ==
    LET count == b.failureCount + 1
    IN [state |-> IF count >= FAILURE_THRESHOLD THEN "OPEN" ELSE b.state,
        failureCount |-> count,
        lastFailureTime |-> now]

\* Execute as it would be if the rejection of an open breaker were thrown
\* inside the try block and so recorded as a failure.
ExecuteRecordsRejection(c) ==
    /\ calls[c].pc = "idle"
    /\ breaker.failureCount + InFlight < MaxFailures
    /\ IF breaker.state = "OPEN" /\ ~CoolDownElapsed
       THEN /\ calls' = [calls EXCEPT ![c] = [IdleCall EXCEPT !.result = "rejected"]]
            /\ breaker' = RecordFailure(breaker)
       ELSE /\ calls' = [calls EXCEPT ![c] = [pc |-> "fresh",
                                             probe |-> breaker.state = "OPEN",
                                             result |-> "none"]]
            /\ breaker' = IF breaker.state = "OPEN"
                          THEN [breaker EXCEPT !.state = "HALF_OPEN"]
                          ELSE breaker
    /\ UNCHANGED <<now, pipelineVars, fnVars, serviceVars, batch, pool>>

\* execute, lines 26-41: the state test, then the guarded operation is started.
Execute(c) ==
    /\ calls[c].pc = "idle"
    /\ breaker.failureCount + InFlight < MaxFailures
    /\ IF breaker.state = "OPEN" /\ ~CoolDownElapsed
       THEN /\ calls' = [calls EXCEPT ![c] = [IdleCall EXCEPT !.result = "rejected"]]
            /\ UNCHANGED breaker
       ELSE /\ calls' = [calls EXCEPT ![c] = [pc |-> "fresh",
                                             probe |-> breaker.state = "OPEN",
                                             result |-> "none"]]
            /\ breaker' = IF breaker.state = "OPEN"
                          THEN [breaker EXCEPT !.state = "HALF_OPEN"]
                          ELSE breaker
    /\ UNCHANGED <<now, pipelineVars, fnVars, serviceVars, batch, pool>>

\* OperationSucceeds as it would be if a success left failureCount alone.
OperationSucceedsKeepsCount(c) ==
    /\ calls[c].pc = "fresh"
    /\ calls' = [calls EXCEPT ![c] = [@ EXCEPT !.pc = "idle", !.result = "value"]]
    /\ breaker' = IF breaker.state = "HALF_OPEN"
                  THEN [breaker EXCEPT !.state = "CLOSED"]
                  ELSE breaker
    /\ UNCHANGED <<now, pipelineVars, fnVars, serviceVars, batch, pool>>

\* OperationSucceeds as it would be if every success cleared failureCount.
OperationSucceedsClearsCount(c) ==
    /\ calls[c].pc = "fresh"
    /\ calls' = [calls EXCEPT ![c] = [@ EXCEPT !.pc = "idle", !.result = "value"]]
    /\ breaker' = IF breaker.state = "HALF_OPEN"
                  THEN [breaker EXCEPT !.state = "CLOSED", !.failureCount = 0]
                  ELSE [breaker EXCEPT !.failureCount = 0]
    /\ UNCHANGED <<now, pipelineVars, fnVars, serviceVars, batch, pool>>

\* OperationSucceeds as it would be if a success closed the breaker whatever
\* its state.
OperationSucceedsClosesOpen(c) ==
    /\ calls[c].pc = "fresh"
    /\ calls' = [calls EXCEPT ![c] = [@ EXCEPT !.pc = "idle", !.result = "value"]]
    /\ breaker' = IF breaker.state # "CLOSED"
                  THEN [breaker EXCEPT !.state = "CLOSED", !.failureCount = 0]
                  ELSE breaker
    /\ UNCHANGED <<now, pipelineVars, fnVars, serviceVars, batch, pool>>

\* execute, lines 43-50: the operation resolved before the timer.
OperationSucceeds(c) ==
    /\ calls[c].pc = "fresh"
    /\ calls' = [calls EXCEPT ![c] = [@ EXCEPT !.pc = "idle", !.result = "value"]]
    /\ breaker' = IF breaker.state = "HALF_OPEN"
                  THEN [breaker EXCEPT !.state = "CLOSED", !.failureCount = 0]
                  ELSE breaker
    /\ UNCHANGED <<now, pipelineVars, fnVars, serviceVars, batch, pool>>

\* execute, lines 51-54: the operation rejected, or the timer did.
OperationFails(c) ==
    /\ Running(c)
    /\ calls' = [calls EXCEPT ![c] = [@ EXCEPT !.pc = "idle", !.result = "error"]]
    /\ breaker' = RecordFailure(breaker)
    /\ UNCHANGED <<now, pipelineVars, fnVars, serviceVars, batch, pool>>

\* SemanticRanker.resetCircuitBreaker (lines 261-265)
ResetCircuitBreaker ==
    /\ breaker' = [breaker EXCEPT !.state = "CLOSED", !.failureCount = 0]
    /\ UNCHANGED <<now, calls, pipelineVars, fnVars, serviceVars, batch, pool>>

\* A minute passes; a call whose timer has expired is settled first.
Tick ==
    /\ now < MaxNow
    /\ \A c \in Callers : calls[c].pc # "due"
    /\ now' = now + OPERATION_TIMEOUT_MIN
    /\ calls' = [c \in Callers |->
                    IF calls[c].pc = "fresh" THEN [calls[c] EXCEPT !.pc = "due"]
                    ELSE calls[c]]
    /\ UNCHANGED <<breaker, pipelineVars, fnVars, serviceVars, batch, pool>>

NextBreaker ==
    \/ \E c \in Callers : Execute(c)
    \/ \E c \in Callers : OperationSucceeds(c)
    \/ \E c \in Callers : OperationFails(c)
    \/ ResetCircuitBreaker
    \/ Tick

SpecBreaker == Init /\ [][NextBreaker]_vars

(***************************************************************************)
(* SummarizationService with concurrent callers                            *)
(* Callers call initialize (directly, through getSummarizer or through     *)
(* summarize) on one instance they hold; dispose() may be called at any    *)
(* time.  A run of doInitialize is in flight while its status is           *)
(* "loading"; it is marked disposed when dispose() is called meanwhile.    *)
(***************************************************************************)
\* Everything but the service's two fields and what its callers add to them.
outsideService ==
    <<pc, rawHtml, contentRegions, article, phases, notifications, sink, outcome,
      result, clock, sectionsLeft, summaries, adaptiveChunkSize, chunk,
      passTimedOut, constThrows, fnVars, breakerVars, batch, pool>>

Loading == {r \in 1..Len(runs) : runs[r].status = "loading"}

\* What a caller awaiting run r gets when the run has the given status.
Settled(status) ==
    CASE status = "fulfilled" -> "resolved"
      [] status = "rejected" -> "rejected"
      [] OTHER -> "none"

Settle(r, status) ==
    [c \in Callers |->
        IF awaiting[c].on = r /\ awaiting[c].result = "none"
        THEN [awaiting[c] EXCEPT !.result = Settled(status)]
        ELSE awaiting[c]]

\* Initialize as it would be without the test of initPromise (line 306).
InitializeIgnoresPromise(c) ==
    /\ awaiting[c].result # "none"
    /\ IF summarizer # 0
       THEN /\ awaiting' = [awaiting EXCEPT ![c] = [on |-> 0, result |-> "resolved"]]
            /\ UNCHANGED <<runs, currentRun, initPromise>>
       ELSE /\ Len(runs) < MaxRuns
            /\ runs' = Append(runs, [status |-> "loading", model |-> 1,
                                     disposed |-> FALSE])
            /\ currentRun' = Len(runs) + 1
            /\ initPromise' = "pending"
            /\ awaiting' = [awaiting EXCEPT ![c] = [on |-> Len(runs) + 1,
                                                     result |-> "none"]]
    /\ UNCHANGED <<summarizer, outsideService>>

\* initialize (lines 304-310), called by c.
Initialize(c) ==
    /\ awaiting[c].result # "none"
    /\ IF summarizer # 0
       THEN /\ awaiting' = [awaiting EXCEPT ![c] = [on |-> 0, result |-> "resolved"]]
            /\ UNCHANGED <<runs, currentRun, initPromise>>
       ELSE IF currentRun # 0
       THEN /\ awaiting' = [awaiting EXCEPT ![c] =
                               [on |-> currentRun,
                                result |-> Settled(runs[currentRun].status)]]
            /\ UNCHANGED <<runs, currentRun, initPromise>>
       ELSE /\ Len(runs) < MaxRuns
            /\ runs' = Append(runs, [status |-> "loading", model |-> 1,
                                     disposed |-> FALSE])
            /\ currentRun' = Len(runs) + 1
            /\ initPromise' = "pending"
            /\ awaiting' = [awaiting EXCEPT ![c] = [on |-> Len(runs) + 1,
                                                     result |-> "none"]]
    /\ UNCHANGED <<summarizer, outsideService>>

\* doInitialize (lines 319-332): the candidate of run r loads within the timeout.
ModelLoads(r) ==
    /\ r \in Loading
    /\ summarizer' = runs[r].model
    /\ runs' = [runs EXCEPT ![r].status = "fulfilled"]
    /\ awaiting' = Settle(r, "fulfilled")
    /\ initPromise' = IF r = currentRun THEN "fulfilled" ELSE initPromise
    /\ UNCHANGED <<currentRun, outsideService>>

\* doInitialize (lines 333-339): the candidate of run r fails or times out; the
\* next one is tried, and after the last the run rejects.
ModelFails(r) ==
    /\ r \in Loading
    /\ IF runs[r].model < NUM_MODELS
       THEN /\ runs' = [runs EXCEPT ![r].model = @ + 1]
            /\ UNCHANGED <<awaiting, initPromise>>
       ELSE /\ runs' = [runs EXCEPT ![r].status = "rejected"]
            /\ awaiting' = Settle(r, "rejected")
            /\ initPromise' = IF r = currentRun THEN "rejected" ELSE initPromise
    /\ UNCHANGED <<summarizer, currentRun, outsideService>>

\* dispose (lines 371-375)
Dispose ==
    /\ summarizer' = 0
    /\ initPromise' = "null"
    /\ currentRun' = 0
    /\ runs' = [r \in 1..Len(runs) |->
                   IF runs[r].status = "loading"
                   THEN [runs[r] EXCEPT !.disposed = TRUE]
                   ELSE runs[r]]
    /\ UNCHANGED <<awaiting, outsideService>>

NextService ==
    \/ \E c \in Callers : Initialize(c)
    \/ \E r \in 1..MaxRuns : ModelLoads(r)
    \/ \E r \in 1..MaxRuns : ModelFails(r)
    \/ Dispose

SpecService == Init /\ [][NextService]_vars

(***************************************************************************)
(* The multi-URL batch: queryDuckDuckGo (queryDuckDuckGo.ts, four fetches  *)
(* at a time through pLimit) and queryDuckDuckGoTool (webSearch.ts, one    *)
(* fetch after the other).  A task is one selected search result; its      *)
(* title is its position in the search results.                            *)
(***************************************************************************)
\* How many fetches the tool has in progress at once.
Limit(tool) == IF tool = "queryDuckDuckGo" THEN CONCURRENCY ELSE 1

Min(a, b) == IF a < b THEN a ELSE b

\* The number of results slice(0, resultsCount) selects out of the available.
ResultsCount(tool, available, numOfResults) ==
    IF tool = "queryDuckDuckGo"
    THEN Min(available, IF numOfResults > 0 THEN numOfResults ELSE 3)
    ELSE Min(available, IF numOfResults < 3 THEN available ELSE numOfResults)

Placeholders == {"Error: Unable to extract content.", "Error fetching content."}

Done(entry, failed) == [pc |-> "done", entry |-> entry, failed |-> failed]

Going(at) == [pc |-> at, entry |-> "none", failed |-> FALSE]

\* What a task becomes when the request it waits for settles, in
\* fetchPageContent as it would be without any try/catch around the requests.
FetchOutcomesUnguarded(tool, at) ==
    {Done("content", FALSE), [pc |-> "rejected", entry |-> "none", failed |-> TRUE]}

\* What a task that is at the given step becomes when the request it waits
\* for settles.
FetchOutcomes(tool, at) ==
    IF tool = "queryDuckDuckGo"
    THEN CASE at = "fetch" ->
                {Done("content", FALSE), Done("_PDF detected. Skipping extraction._", FALSE),
                 Done("_Non-HTML content. Skipping._", FALSE),
                 Going("puppeteer"), Going("retry")}
           [] at = "puppeteer" -> {Done("content", FALSE), Going("retry")}
           [] OTHER ->
                {Done("content", FALSE), Done("Error: Unable to extract content.", TRUE)}
    ELSE {Done("content", FALSE), Done("Error: Unable to extract content.", TRUE),
          Done("Error fetching content.", TRUE)}

InProgress == {i \in 1..Len(batch.tasks) : batch.tasks[i].pc \in {"fetch", "puppeteer", "retry"}}

\* The call of either tool with its search results fetched: the tasks of the
\* selected results are created.
StartBatch(tool, available, numOfResults) ==
    /\ batch.tool = "none"
    /\ batch' = [tool |-> tool,
                 numOfResults |-> numOfResults,
                 selected |-> ResultsCount(tool, available, numOfResults),
                 tasks |-> [i \in 1..ResultsCount(tool, available, numOfResults) |->
                               Going("queued")],
                 outcome |-> "running",
                 processed |-> <<>>]
    /\ UNCHANGED <<pipelineVars, fnVars, breakerVars, serviceVars, pool>>

\* The next task in line starts its fetch when the tool has room for it.
TaskStarts(i) ==
    /\ batch.outcome = "running"
    /\ i \in 1..Len(batch.tasks)
    /\ batch.tasks[i].pc = "queued"
    /\ \A j \in 1..(i - 1) : batch.tasks[j].pc # "queued"
    /\ Cardinality(InProgress) < Limit(batch.tool)
    /\ batch' = [batch EXCEPT !.tasks[i] = Going("fetch")]
    /\ UNCHANGED <<pipelineVars, fnVars, breakerVars, serviceVars, pool>>

\* fetchPageContent for task i: the request it waits for settles.
FetchSettles(i) ==
    /\ batch.outcome = "running"
    /\ i \in InProgress
    /\ \E next \in FetchOutcomes(batch.tool, batch.tasks[i].pc) :
          batch' = [batch EXCEPT !.tasks[i] = next]
    /\ UNCHANGED <<pipelineVars, fnVars, breakerVars, serviceVars, pool>>

\* Promise.all(tasks), or the end of the loop: the call returns the entries of
\* the tasks in their order, or rejects with the first task that rejected.
BatchSettles ==
    /\ batch.outcome = "running"
    /\ IF \E i \in 1..Len(batch.tasks) : batch.tasks[i].pc = "rejected"
       THEN batch' = [batch EXCEPT !.outcome = "threw"]
       ELSE /\ \A i \in 1..Len(batch.tasks) : batch.tasks[i].pc = "done"
            /\ batch' = [batch EXCEPT
                            !.outcome = "returned",
                            !.processed = [i \in 1..Len(batch.tasks) |->
                                              [title |-> i,
                                               content |-> batch.tasks[i].entry]]]
    /\ UNCHANGED <<pipelineVars, fnVars, breakerVars, serviceVars, pool>>

NextBatch ==
    \/ \E tool \in {"queryDuckDuckGo", "queryDuckDuckGoTool"}, available \in 0..MaxResults, numOfResults \in 0..MaxResults :
          StartBatch(tool, available, numOfResults)
    \/ \E i \in 1..MaxResults : TaskStarts(i)
    \/ \E i \in 1..MaxResults : FetchSettles(i)
    \/ BatchSettles

SpecBatch == Init /\ [][NextBatch]_vars

(***************************************************************************)
(* BrowserPool (BrowserPool.ts)                                            *)
(* browsers and pages are the two Maps, keyed by numbers given in the      *)
(* order of insertion; lru lists the tracked browsers by lastUsed, the     *)
(* least recently used first.  Callers run getPage and releasePage         *)
(* concurrently and are suspended at each await.  The cleanup routine may  *)
(* find any browser old or idle, and any page that is not in use idle.     *)
(***************************************************************************)
\* removePage (lines 366-384)
RemovePage(p, pageId) ==
    IF pageId \notin DOMAIN p.pages THEN p
    ELSE LET b == p.pages[pageId].browserId
         IN [p EXCEPT
                !.pages = [k \in DOMAIN @ \ {pageId} |-> @[k]],
                !.browsers = IF b \in DOMAIN @
                             THEN [@ EXCEPT ![b].pageCount = Max(0, @ - 1)]
                             ELSE @]

\* closeBrowser (lines 339-361): the pages of the browser are removed, then
\* the browser is closed and deleted.
CloseBrowser(p, browserId) ==
    IF browserId \notin DOMAIN p.browsers THEN p
    ELSE LET gone == {k \in DOMAIN p.pages : p.pages[k].browserId = browserId}
         IN [p EXCEPT
                !.pages = [k \in DOMAIN @ \ gone |-> @[k]],
                !.browsers = [b \in DOMAIN @ \ {browserId} |-> @[b]],
                !.lru = SelectSeq(@, LAMBDA b : b # browserId)]

\* The healthy browsers with room for a page (line 83).
WithCapacity ==
    {b \in DOMAIN pool.browsers :
        /\ pool.browsers[b].isHealthy
        /\ pool.browsers[b].pageCount < MaxPagesPerBrowser}

Lowest(S) == CHOOSE k \in S : \A other \in S : k <= other

\* getPage calls getBrowser (lines 76-96), up to its return or first await.
GetBrowser(c) ==
    /\ pool.calls[c].pc = "idle"
    /\ IF WithCapacity # {}
       THEN LET b == Lowest(WithCapacity)
            IN pool' = [pool EXCEPT
                           !.lru = Append(SelectSeq(@, LAMBDA k : k # b), b),
                           !.calls[c] = [IdleHolder EXCEPT !.pc = "haveBrowser",
                                                           !.browser = b]]
       ELSE /\ pool.launched
                   + Cardinality({d \in Callers :
                                     pool.calls[d].pc \in {"launching", "evicting"}})
                 < MaxLaunches
            /\ IF Cardinality(DOMAIN pool.browsers) < MaxBrowsers
               THEN pool' = [pool EXCEPT
                                !.calls[c] = [IdleHolder EXCEPT !.pc = "launching"]]
               ELSE pool' = [pool EXCEPT
                                !.calls[c] = [IdleHolder EXCEPT
                                                 !.pc = "evicting",
                                                 !.browser = Head(pool.lru)]]
    /\ UNCHANGED <<pipelineVars, fnVars, breakerVars, serviceVars, batch>>

\* getBrowser, lines 98-100: closeBrowser(oldestBrowser.id) has finished.
EvictionCompletes(c) ==
    /\ pool.calls[c].pc = "evicting"
    /\ pool' = [CloseBrowser(pool, pool.calls[c].browser) EXCEPT
                   !.calls[c] = [IdleHolder EXCEPT !.pc = "launching"]]
    /\ UNCHANGED <<pipelineVars, fnVars, breakerVars, serviceVars, batch>>

\* createBrowser (lines 222-244): puppeteer.launch resolves and the browser
\* is tracked, or it rejects and getPage rejects with it.
LaunchSettles(c) ==
    /\ pool.calls[c].pc = "launching"
    /\ \/ LET b == pool.launched + 1
          IN pool' = [pool EXCEPT
                         !.browsers = (b :> [pageCount |-> 0, isHealthy |-> TRUE]) @@ @,
                         !.lru = Append(@, b),
                         !.launched = b,
                         !.calls[c] = [IdleHolder EXCEPT !.pc = "haveBrowser",
                                                         !.browser = b]]
       \/ pool' = [pool EXCEPT !.calls[c] = IdleHolder]
    /\ UNCHANGED <<pipelineVars, fnVars, breakerVars, serviceVars, batch>>

\* AcquirePage as it would be if the search for a page to reuse left out the
\* test of isInUse.
AcquirePageIgnoresInUse(c) ==
    LET b == pool.calls[c].browser
        pagesOf == {k \in DOMAIN pool.pages : pool.pages[k].browserId = b}
    IN /\ pool.calls[c].pc = "haveBrowser"
       /\ IF b \notin DOMAIN pool.browsers
          THEN pool' = [pool EXCEPT !.calls[c] = IdleHolder]
          ELSE IF pagesOf # {}
          THEN pool' = [pool EXCEPT
                           !.pages[Lowest(pagesOf)].isInUse = TRUE,
                           !.calls[c] = [@ EXCEPT !.pc = "holding",
                                                  !.page = Lowest(pagesOf),
                                                  !.reused = TRUE]]
          ELSE /\ pool.created < MaxPagesCreated
               /\ pool' = [pool EXCEPT !.calls[c].pc = "newPage"]
       /\ UNCHANGED <<pipelineVars, fnVars, breakerVars, serviceVars, batch>>

\* getPage, lines 110-127: after the await of getBrowser, an unused page of
\* the browser is taken, or browser.newPage() is called.
AcquirePage(c) ==
    LET b == pool.calls[c].browser
        pagesOf == {k \in DOMAIN pool.pages :
                       pool.pages[k].browserId = b /\ ~pool.pages[k].isInUse}
    IN /\ pool.calls[c].pc = "haveBrowser"
       /\ IF b \notin DOMAIN pool.browsers
          THEN pool' = [pool EXCEPT !.calls[c] = IdleHolder]
          ELSE IF pagesOf # {}
          THEN pool' = [pool EXCEPT
                           !.pages[Lowest(pagesOf)].isInUse = TRUE,
                           !.calls[c] = [@ EXCEPT !.pc = "holding",
                                                  !.page = Lowest(pagesOf),
                                                  !.reused = TRUE]]
          ELSE /\ pool.created < MaxPagesCreated
               /\ pool' = [pool EXCEPT !.calls[c].pc = "newPage"]
       /\ UNCHANGED <<pipelineVars, fnVars, breakerVars, serviceVars, batch>>

\* getPage, lines 127-147: newPage and optimizePage have resolved and the
\* page is tracked as in use; on a browser closed meanwhile newPage rejects.
NewPageCompletes(c) ==
    LET b == pool.calls[c].browser
        k == pool.created + 1
    IN /\ pool.calls[c].pc = "newPage"
       /\ IF b \in DOMAIN pool.browsers
          THEN pool' = [pool EXCEPT
                           !.pages = (k :> [browserId |-> b, isInUse |-> TRUE]) @@ @,
                           !.created = k,
                           !.browsers[b].pageCount = @ + 1,
                           !.calls[c] = [@ EXCEPT !.pc = "holding", !.page = k]]
          ELSE pool' = [pool EXCEPT !.calls[c] = IdleHolder]
       /\ UNCHANGED <<pipelineVars, fnVars, breakerVars, serviceVars, batch>>

\* releasePage, lines 153-170: the page is looked up and its reset is started;
\* a page that is no longer tracked is closed.
ReleasePage(c) ==
    /\ pool.calls[c].pc = "holding"
    /\ IF pool.calls[c].page \in DOMAIN pool.pages
       THEN pool' = [pool EXCEPT !.calls[c].pc = "resetting"]
       ELSE pool' = [pool EXCEPT !.calls[c] = IdleHolder]
    /\ UNCHANGED <<pipelineVars, fnVars, breakerVars, serviceVars, batch>>

\* releasePage, lines 169-176: resetPage resolves and the page is free for
\* reuse, or it rejects and the page is removed.
ResetSettles(c) ==
    LET k == pool.calls[c].page
    IN /\ pool.calls[c].pc = "resetting"
       /\ \/ pool' = [pool EXCEPT
                         !.pages = IF k \in DOMAIN @
                                   THEN [@ EXCEPT ![k].isInUse = FALSE]
                                   ELSE @,
                         !.calls[c] = IdleHolder]
          \/ pool' = [RemovePage(pool, k) EXCEPT !.calls[c] = IdleHolder]
       /\ UNCHANGED <<pipelineVars, fnVars, breakerVars, serviceVars, batch>>

\* The 'disconnected' event of a tracked browser (lines 235-238, 331-334).
BrowserDisconnects(b) ==
    /\ b \in DOMAIN pool.browsers
    /\ pool.browsers[b].isHealthy
    /\ pool' = [pool EXCEPT !.browsers[b].isHealthy = FALSE]
    /\ UNCHANGED <<pipelineVars, fnVars, breakerVars, serviceVars, batch>>

\* The cleanup routine (lines 389-418) closes a browser that is unhealthy,
\* older than maxBrowserAge or unused for maxIdleTime, or removes a page that
\* is not in use and older than half of maxIdleTime.
Cleanup ==
    /\ \/ \E b \in DOMAIN pool.browsers : pool' = CloseBrowser(pool, b)
       \/ \E k \in DOMAIN pool.pages :
             ~pool.pages[k].isInUse /\ pool' = RemovePage(pool, k)
    /\ UNCHANGED <<pipelineVars, fnVars, breakerVars, serviceVars, batch>>

NextPool ==
    \/ \E c \in Callers : GetBrowser(c)
    \/ \E c \in Callers : EvictionCompletes(c)
    \/ \E c \in Callers : LaunchSettles(c)
    \/ \E c \in Callers : AcquirePage(c)
    \/ \E c \in Callers : NewPageCompletes(c)
    \/ \E c \in Callers : ReleasePage(c)
    \/ \E c \in Callers : ResetSettles(c)
    \/ \E b \in 1..MaxLaunches : BrowserDisconnects(b)
    \/ Cleanup

SpecPool == Init /\ [][NextPool]_vars

(***************************************************************************)
(* Properties                                                              *)
(***************************************************************************)
BackendErrors == {"Backend error", "Summarization timeout"}
FallbackTiers == {"extractive", "keyFacts", "original"}

\* C1: when a backend summarize call of a chunk fails for good (it throws or
\* times out on its last attempt, in whichever pass), intelligentSummarization
\* does not throw; it returns non-empty content from the fallback chain: the
\* extractive summary if longer than 50 characters, else the key facts, else
\* the chunk's own text.
C1_BackendFailureFallsBack ==
    /\ chunk.status = "threw" => chunk.cause \notin BackendErrors
    /\ (chunk.status = "returned" /\ chunk.cause = "backend") =>
          /\ chunk.tier \in FallbackTiers
          /\ chunk.len > 0
          /\ chunk.tier = "extractive" => chunk.len > 50
          /\ chunk.tier = "original" => chunk.len = TextLength(chunk.text)
          /\ outcome # "threw"

\* C1 witness: the backend failed in the second pass and the chunk was
\* answered with key facts.
C1_Witness ==
    /\ chunk.status = "returned"
    /\ chunk.cause = "backend"
    /\ chunk.pass = 2
    /\ chunk.tier = "keyFacts"

\* C2: when no summarization model can be loaded, cleanHtml still returns
\* content for a document that has a section in need of summarization.
C2_InitFailureStillReturns ==
    (pc = "done" /\ initPromise = "rejected") =>
        /\ outcome = "returned"
        /\ result.value.len > 0

\* C3: every summarization timeout, of one pass (30 s) or of the whole
\* document (120 s), engages the fallback chain; cleanHtml returns content and
\* does not end with an error.
C3_TimeoutsFallBack ==
    (pc = "done" /\ (passTimedOut \/ chunk.status = "abandoned")) =>
        /\ outcome = "returned"
        /\ result.value.len > 0

\* C4: cleanHtml given an empty string, or HTML under the minimum length,
\* returns the empty string and does not throw.
C4_ShortInputReturnsEmpty ==
    (pc = "done" /\ (rawHtml.len = 0 \/ rawHtml.trimLen < MIN_HTML_LENGTH)) =>
        /\ outcome = "returned"
        /\ result = Returned(EmptyString)

ExtractionFailed ==
    /\ phases # <<>>
    /\ phases[Len(phases)] = "Readability.parse"
    /\ article = "none"

\* C5: when validation passes and neither Readability nor the region fallback
\* yields content, cleanHtml emits one notification and returns the empty
\* string; it never ends with an exception.
C5_NoContentReturnsEmpty ==
    /\ (article = "region") =>
          \E i \in 1..Len(contentRegions) :
              contentRegions[i].score > BEST_REGION_SCORE
    /\ (pc = "done" /\ ExtractionFailed) =>
          /\ notifications = 1
          /\ outcome = "returned"
          /\ result = Returned(EmptyString)

\* C6: the notification is fire-and-forget: once it is issued cleanHtml has
\* returned the empty result, whatever becomes of the addMessages promise
\* (pending, resolved or rejected).
C6_NotificationFireAndForget ==
    notifications > 0 =>
        /\ pc = "done"
        /\ outcome = "returned"
        /\ result = Returned(EmptyString)

Before(a, b) ==
    \E i, j \in 1..Len(phases) : i < j /\ phases[i] = a /\ phases[j] = b

Applied(a) == \E i \in 1..Len(phases) : phases[i] = a

\* C7: in every run that reaches extraction the boilerplate filter is applied
\* to the whole document before Readability runs, and again to the article
\* body before the Markdown conversion.
C7_BoilerplateFilterTwice ==
    /\ Applied("Readability.parse") =>
          Before("removeBoilerplate(document)", "Readability.parse")
    /\ Applied("turndown") => Before("removeBoilerplate(body)", "turndown")

IsPrefix(s, t) == Len(s) <= Len(t) /\ \A i \in 1..Len(s) : s[i] = t[i]

\* C8: whenever a chunk falls back (its first summary was rejected, or the
\* backend failed) the tiers are tried in the order extractive, key facts,
\* original, and the result comes from the last tier tried.
C8_FallbackOrder ==
    (chunk.status = "returned" /\ chunk.cause \in {"rejected", "backend"}) =>
        /\ chunk.tried # <<>>
        /\ IsPrefix(chunk.tried, <<"extractive", "keyFacts", "original">>)
        /\ chunk.tier = chunk.tried[Len(chunk.tried)]

\* C9: for a text of more than N sentences the extractive summary consists of
\* exactly the N highest-scoring sentences, in the order they have in the text.
C9_TopSentencesInTextOrder ==
    (output.done /\ Len(input.text) > input.maxSentences) =>
        LET picked == output.positions
            chosen == {picked[i] : i \in 1..Len(picked)}
        IN /\ Len(picked) = input.maxSentences
           /\ Cardinality(chosen) = input.maxSentences
           /\ \A p \in chosen : \A q \in (1..Len(input.text)) \ chosen :
                 SentenceScore2(input.text[p]) >= SentenceScore2(input.text[q])
           /\ \A i \in 1..Len(picked) - 1 : picked[i] < picked[i + 1]

\* C10: a summary under 10 characters is rejected; a summary of at least 10
\* characters with a single detected issue, whose penalty leaves the score at
\* 50 or more, is still valid.
C10_SinglePenaltyStillValid ==
    output.done =>
        /\ input.summary.len < 10 => ~output.validation.isValid
        /\ (/\ input.summary.len >= 10
            /\ Len(output.validation.issues) = 1
            /\ output.validation.score >= 50) => output.validation.isValid

\* C11: when the first-pass summary passes validation, a second backend call
\* is made only if the post-processed first summary has more words than the
\* target and the strategy allows more than one iteration; otherwise the
\* chunk's result is the post-processed first-pass summary.
C11_SecondPassOnlyWhenNeeded ==
    /\ (chunk.status = "running" /\ chunk.pass = 2) =>
          /\ chunk.first.words > chunk.target
          /\ Strategy(chunk.classification).maxIterations > 1
    /\ (/\ chunk.status = "returned"
        /\ chunk.pass = 1
        /\ chunk.cause \notin {"rejected", "backend"}) => chunk.tier = "firstPass"

\* C12: a section whose quality score is below 25 is passed over: it causes no
\* call of intelligentSummarization, nothing is pushed to summaries for it, and
\* the string summarizeMarkdown returns is the join of summaries, so it is built
\* from sections scoring at least 25 only.
C12_LowQualitySectionsDropped ==
    /\ [](chunk.status \in {"running", "returned", "threw", "abandoned", "kept"} =>
            chunk.quality >= MIN_QUALITY)
    /\ [](chunk.status = "skipped" =>
            /\ chunk.quality < MIN_QUALITY
            /\ pc \in {"sections", "done"})
    /\ [][Len(summaries') > Len(summaries) =>
            /\ chunk'.status \in {"kept", "returned"}
            /\ chunk'.quality >= MIN_QUALITY]_vars
    /\ []((outcome = "returned" /\ result.value.string = "joined") =>
            result.value.parts = summaries)

\* C12 witness: the only section of the document scored below 25 and was
\* passed over; cleanHtml returned without it.
C12_Witness ==
    /\ pc = "done"
    /\ outcome = "returned"
    /\ chunk.status = "skipped"
    /\ result.value.parts = <<>>

ChunkOf(k) == \E c \in 1..Len(output.chunks) :
                 \E j \in 1..Len(output.chunks[c]) : output.chunks[c][j] = k

\* C13: every chunk intelligentChunk emits has at most maxChunkWords words,
\* unless it is a single sentence (or heading line) that alone exceeds the
\* budget; on the heading, paragraph and sentence paths alike.
C13_ChunksWithinBudget ==
    output.done =>
        \A c \in 1..Len(output.chunks) :
            \/ ChunkWords(input.markdown, output.chunks[c]) <= input.maxChunkWords
            \/ Len(output.chunks[c]) = 1

\* C14: intelligentChunk drops nothing: every sentence and heading line of the
\* markdown is in at least one chunk, and a unit over the budget is a chunk of
\* its own.
C14_NoContentDropped ==
    output.done =>
        /\ \A k \in 1..Len(input.markdown) : ChunkOf(k)
        /\ \A c \in 1..Len(output.chunks) : output.chunks[c] # <<>>

\* C14 witness: a text over the budget without headings, holding a sentence
\* that alone exceeds the budget, was split and the sentence is a chunk.
C14_Witness ==
    /\ output.done
    /\ "markdown" \in DOMAIN input
    /\ Len(output.chunks) > 1
    /\ \A k \in 1..Len(input.markdown) : input.markdown[k].kind = "sentence"
    /\ \E c \in 1..Len(output.chunks) :
          /\ Len(output.chunks[c]) = 1
          /\ ChunkWords(input.markdown, output.chunks[c]) > input.maxChunkWords

Survivors(normalized) ==
    {c \in 1..Len(output.paragraphs) :
        NormalizeParagraph(input.markdown[output.paragraphs[c].from]) = normalized}

\* C15: of two non-structural paragraphs with the same normalized text the
\* output of dedupeContent holds exactly one, whatever their length.
C15_ExactlyOneDuplicateSurvives ==
    output.done =>
        \A i, j \in 1..Len(input.markdown) :
            (/\ i < j
             /\ ~input.markdown[i].structural
             /\ ~input.markdown[j].structural
             /\ NormalizeParagraph(input.markdown[i])
                    = NormalizeParagraph(input.markdown[j]))
            => Cardinality(Survivors(NormalizeParagraph(input.markdown[i]))) = 1

\* The step is an execute call of caller c passing the state test.
Admission(c) == calls[c].pc = "idle" /\ calls'[c] # calls[c]

\* C16: while the breaker is Open and the cool-down has not elapsed, an execute
\* call is rejected without starting the guarded operation, and it leaves
\* state, failureCount and lastFailureTime as they were.
C16_OpenBreakerRejects ==
    [][\A c \in Callers :
          (Admission(c) /\ breaker.state = "OPEN" /\ ~CoolDownElapsed) =>
              /\ calls'[c].pc = "idle"
              /\ calls'[c].result = "rejected"
              /\ breaker' = breaker]_vars

\* C16 witness: the breaker opened on its fifth failure and a call has been
\* rejected during the cool-down.
C16_Witness ==
    /\ breaker.state = "OPEN"
    /\ breaker.failureCount = FAILURE_THRESHOLD
    /\ ~CoolDownElapsed
    /\ now > breaker.lastFailureTime
    /\ \E c \in Callers : calls[c].result = "rejected"

LiveRuns == {r \in Loading : ~runs[r].disposed}

Pending(c) == awaiting[c].on # 0 /\ awaiting[c].result = "none"

C20_BatchFailuresIsolated ==
    /\ batch.outcome # "threw"
    /\ \A i \in 1..Len(batch.tasks) : batch.tasks[i].pc # "rejected"
    /\ batch.outcome = "returned" =>
          /\ Len(batch.processed) = batch.selected
          /\ \A i \in 1..batch.selected :
                /\ batch.processed[i].title = i
                /\ batch.tasks[i].pc = "done"
                /\ batch.processed[i].content = batch.tasks[i].entry
                /\ batch.tasks[i].failed <=> batch.processed[i].content \in Placeholders

C20_Witness ==
    /\ batch.tool = "queryDuckDuckGo"
    /\ batch.outcome = "returned"
    /\ batch.selected > CONCURRENCY
    /\ batch.processed[1].content = "Error: Unable to extract content."
    /\ \A i \in 2..batch.selected : batch.processed[i].content = "content"

\* C23: failureCount counts the failures since the last reset: a success
\* while Closed leaves it as it was, every recorded failure adds one, the
\* breaker goes from Closed to Open exactly when the count reaches 5, and
\* Open or Half-Open implies a count of at least 5.
C23_FailureCountCumulative ==
    /\ [](breaker.state \in {"OPEN", "HALF_OPEN"} =>
              breaker.failureCount >= FAILURE_THRESHOLD)
    /\ [](breaker.state = "CLOSED" => breaker.failureCount < FAILURE_THRESHOLD)
    /\ [][\A c \in Callers :
             /\ (/\ Running(c)
                 /\ calls'[c].result = "value"
                 /\ breaker.state = "CLOSED") => breaker' = breaker
             /\ (Running(c) /\ calls'[c].result = "error") =>
                   /\ breaker'.failureCount = breaker.failureCount + 1
                   /\ breaker'.state = "OPEN" <=>
                         breaker'.failureCount >= FAILURE_THRESHOLD]_vars

\* C23 witness: the breaker is Open on exactly its fifth failure, the last
\* call of one caller having succeeded.
C23_Witness ==
    /\ breaker.state = "OPEN"
    /\ breaker.failureCount = FAILURE_THRESHOLD
    /\ \E c \in Callers :
          calls[c].pc = "idle" /\ calls[c].result = "value" /\ ~calls[c].probe

\* C24: the state changes only from Closed to Open, from Open to Half-Open,
\* from Half-Open to Closed and from Half-Open to Open, and to Closed by
\* resetCircuitBreaker; a success reported while the breaker is Open leaves
\* the breaker as it is.
C24_StateTransitions ==
    [][/\ breaker'.state # breaker.state =>
             \/ <<breaker.state, breaker'.state>> \in
                   {<<"CLOSED", "OPEN">>, <<"OPEN", "HALF_OPEN">>,
                    <<"HALF_OPEN", "CLOSED">>, <<"HALF_OPEN", "OPEN">>}
             \/ breaker'.state = "CLOSED" /\ calls' = calls
       /\ \A c \in Callers :
             (/\ Running(c)
              /\ calls'[c].result = "value"
              /\ breaker.state = "OPEN") => breaker' = breaker]_vars

\* C24 witness: the breaker is Open while an operation admitted before it
\* opened is still running.
C24_Witness ==
    /\ breaker.state = "OPEN"
    /\ \E c \in Callers : calls[c].pc = "fresh" /\ ~calls[c].probe

Places == {p \in (1..Len(output.chunks)) \X (1..MaxUnits) :
              p[2] <= Len(output.chunks[p[1]])}

\* C26: intelligentChunk emits every sentence and heading line of the
\* markdown exactly once and in document order: along the emitted chunks the
\* units strictly ascend, so none is in two chunks.
C26_EachPieceOnceInOrder ==
    output.done =>
        /\ \A k \in 1..Len(input.markdown) : ChunkOf(k)
        /\ \A p, q \in Places :
              (p[1] < q[1] \/ (p[1] = q[1] /\ p[2] < q[2])) =>
                  output.chunks[p[1]][p[2]] < output.chunks[q[1]][q[2]]

\* C30: no classification selects a strategy with maxIterations 3, so no chunk
\* enters the third pass or returns its summary: intelligentSummarization
\* calls summarize at most twice for a chunk.
C30_ThirdPassUnreachable ==
    /\ \A contentType \in {"structured", "mixed", "narrative"}, density \in Densities :
          Strategy([contentType |-> contentType,
                    informationDensity |-> density]).maxIterations \in {1, 2}
    /\ chunk.status = "running" => chunk.pass \in {1, 2}
    /\ chunk.status = "returned" => chunk.tier # "thirdPass"

\* C30 witness: a second-pass summary of 100 words (600 characters), more
\* than 1.2 times the target, was returned as the chunk's result.
C30_Witness ==
    /\ chunk.status = "returned"
    /\ chunk.tier = "secondPass"
    /\ chunk.pass = 2
    /\ chunk.len = 600
    /\ 100 * 10 > chunk.target * 12

\* C22: called with numOfResults >= 1 (3 when the argument is left out),
\* queryDuckDuckGoTool selects, fetches and returns at most numOfResults
\* search results, however many are available.
C22_AtMostNumOfResults ==
    (batch.tool = "queryDuckDuckGoTool" /\ batch.numOfResults >= 1) =>
        /\ batch.selected <= batch.numOfResults
        /\ Len(batch.tasks) <= batch.numOfResults
        /\ Len(batch.processed) <= batch.numOfResults

\* Whether a node below the given one, at any depth, satisfies a removal rule.
RECURSIVE HoldsRemovable(_)
HoldsRemovable(node) ==
    \E k \in 1..Len(node.children) :
        Removable(node.children[k]) \/ HoldsRemovable(node.children[k])

\* C21: after the single pass of the visitor the tree holds no heading with
\* less than 3 characters of text, no list item without content, no image
\* without alt text and no punctuation-only text node.
C21_NoRemovableNodeLeft ==
    output.done => ~HoldsRemovable(output.tree)

\* C27: the pool never tracks more than maxBrowsers browsers.
C27_AtMostMaxBrowsers ==
    Cardinality(DOMAIN pool.browsers) <= MaxBrowsers

\* C28: a page that getPage has returned is held by one caller only, and is
\* marked in use, until releasePage has finished its reset.
C28_PageExclusivelyHeld ==
    \A c \in Callers :
        pool.calls[c].pc \in {"holding", "resetting"} =>
            /\ \A d \in Callers \ {c} :
                  pool.calls[d].pc \in {"holding", "resetting"} =>
                      pool.calls[d].page # pool.calls[c].page
            /\ pool.calls[c].page \in DOMAIN pool.pages =>
                  pool.pages[pool.calls[c].page].isInUse

\* C28 witness: a caller holds a page another caller released before, while
\* the other caller holds a different page.
C28_Witness ==
    \E c \in Callers, d \in Callers :
        /\ c # d
        /\ pool.calls[c].pc = "holding"
        /\ pool.calls[c].reused
        /\ pool.calls[d].pc \in {"holding", "resetting"}
        /\ pool.calls[c].page \in DOMAIN pool.pages

\* C29: no page is closed, alone or with its browser, between getPage
\* returning it and releasePage being called for it: a page is deleted from
\* pages when it is closed, so a page a caller holds is still tracked.
C29_NoPageClosedInUse ==
    \A c \in Callers :
        pool.calls[c].pc = "holding" => pool.calls[c].page \in DOMAIN pool.pages
====
